---- MODULE Spec2Model ----
(***************************************************************************)
(* Symbol cache and bounded call-tree construction of the "recalls"        *)
(* extension: WorkspaceSymbolCache, MethodCallAnalysisService (backward,   *)
(* "who calls this") and InternalMethodCallAnalysisService (forward, "what *)
(* does this call").                                                       *)
(*                                                                         *)
(* Text is modelled at token granularity: a document is a sequence of      *)
(* lines, a line a sequence of tokens, and every token (a word, a          *)
(* punctuation mark, a blank) occupies one column.  Positions are          *)
(* <<line, character>> pairs, zero-based as in the editor API.             *)
(***************************************************************************)
EXTENDS Integers, Sequences, FiniteSets, TLC

(***************************************************************************)
(* Positions and ranges (vscode.Position / vscode.Range).                  *)
(***************************************************************************)
PosLE(p, q) == p[1] < q[1] \/ (p[1] = q[1] /\ p[2] <= q[2])

MkRange(s, e) == [start |-> s, end |-> e]

RangeContains(r, q) == PosLE(r.start, q.start) /\ PosLE(q.end, r.end)

RangeIsEqual(r, q) == r.start = q.start /\ r.end = q.end

(***************************************************************************)
(* Tokens.  A word is any token that is not punctuation or white space.    *)
(***************************************************************************)
NL == "\n"

Blanks == {" ", NL}

Punct == {"(", ")", "{", "}", ".", ";", "<", ">", "="} \cup Blanks

IsWord(tok) == tok \notin Punct

(***************************************************************************)
(* Documents (vscode.TextDocument): getText, offsetAt, positionAt.         *)
(***************************************************************************)
\* The text of a document: its lines joined by line breaks.
RECURSIVE FlattenLines(_)
FlattenLines(lines) ==
    IF lines = <<>> THEN <<>>
    ELSE IF Len(lines) = 1 THEN Head(lines)
    ELSE Head(lines) \o <<NL>> \o FlattenLines(Tail(lines))

\* The offset at which every line starts, the first at from.
RECURSIVE LineStarts(_, _)
LineStarts(lines, from) ==
    IF lines = <<>> THEN <<>>
    ELSE <<from>> \o LineStarts(Tail(lines), from + Len(Head(lines)) + 1)

\* A document [lines, text, starts, ...] keeps its text and its line starts.
OffsetAt(document, pos) == document.starts[pos[1] + 1] + pos[2]

\* The position of an offset: on the last line that starts at or before it.
PositionAt(document, offset) ==
    LET starts == document.starts
        line == CHOOSE l \in 1..Len(starts) :
                    /\ starts[l] <= offset \/ l = 1
                    /\ l = Len(starts) \/ offset < starts[l + 1]
    IN  <<line - 1, offset - starts[line]>>

\* The tokens of the document from range.start up to, not including, range.end.
GetText(document, range) ==
    SubSeq(document.text, OffsetAt(document, range.start) + 1,
           OffsetAt(document, range.end))

(***************************************************************************)
(* Lexical call extraction                                                 *)
(* (InternalMethodCallAnalysisService.findAllMethodCallMatches).           *)
(* Offsets are zero-based as in the code: the token at offset i is         *)
(* text[i + 1].                                                            *)
(***************************************************************************)
TokAt(text, i) == text[i + 1]

\* \s*\( starting at offset j: the offset just after the parenthesis, or -1.
RECURSIVE ParenAfter(_, _)
ParenAfter(text, j) ==
    IF j >= Len(text) THEN -1
    ELSE IF TokAt(text, j) = "(" THEN j + 1
    ELSE IF TokAt(text, j) \in Blanks THEN ParenAfter(text, j + 1)
    ELSE -1

\* One attempt of /(?:^|[^.\w])(\w+)\s*\(/ at offset s.
MethodCallRegexAt(text, s) ==
    LET atStart == /\ s = 0
                   /\ Len(text) >= 1
                   /\ IsWord(TokAt(text, 0))
                   /\ ParenAfter(text, 1) # -1
        afterSep == /\ s + 1 < Len(text)
                    /\ ~IsWord(TokAt(text, s))
                    /\ TokAt(text, s) # "."
                    /\ IsWord(TokAt(text, s + 1))
                    /\ ParenAfter(text, s + 2) # -1
    IN  IF atStart
        THEN [ok |-> TRUE, methodName |-> TokAt(text, 0), index |-> 0,
              lastIndex |-> ParenAfter(text, 1)]
        ELSE IF afterSep
        THEN [ok |-> TRUE, methodName |-> TokAt(text, s + 1), index |-> s + 1,
              lastIndex |-> ParenAfter(text, s + 2)]
        ELSE [ok |-> FALSE, methodName |-> "", index |-> 0, lastIndex |-> 0]

\* The exec loop of the global regex: attempts at s, s + 1, ... until one
\* matches; the next match is searched from its lastIndex.
RECURSIVE MethodCallRegexExec(_, _)
MethodCallRegexExec(text, s) ==
    IF s >= Len(text) THEN <<>>
    ELSE LET m == MethodCallRegexAt(text, s)
         IN  IF m.ok
             THEN <<[methodName |-> m.methodName, index |-> m.index]>>
                    \o MethodCallRegexExec(text, m.lastIndex)
             ELSE MethodCallRegexExec(text, s + 1)

\* One attempt of /\.(\w+)\s*\(/ at offset s.
PropertyMethodRegexAt(text, s) ==
    LET hit == /\ s + 1 < Len(text)
               /\ TokAt(text, s) = "."
               /\ IsWord(TokAt(text, s + 1))
               /\ ParenAfter(text, s + 2) # -1
    IN  IF hit
        THEN [ok |-> TRUE, methodName |-> TokAt(text, s + 1), index |-> s + 1,
              lastIndex |-> ParenAfter(text, s + 2)]
        ELSE [ok |-> FALSE, methodName |-> "", index |-> 0, lastIndex |-> 0]

RECURSIVE PropertyMethodRegexExec(_, _)
PropertyMethodRegexExec(text, s) ==
    IF s >= Len(text) THEN <<>>
    ELSE LET m == PropertyMethodRegexAt(text, s)
         IN  IF m.ok
             THEN <<[methodName |-> m.methodName, index |-> m.index]>>
                    \o PropertyMethodRegexExec(text, m.lastIndex)
             ELSE PropertyMethodRegexExec(text, s + 1)

findAllMethodCallMatches(text) ==
    MethodCallRegexExec(text, 0) \o PropertyMethodRegexExec(text, 0)

\* allMatches.sort((a, b) => a.index - b.index): a stable insertion sort.
RECURSIVE InsertByIndex(_, _)
InsertByIndex(sorted, m) ==
    IF sorted = <<>> THEN <<m>>
    ELSE IF m.index < Head(sorted).index THEN <<m>> \o sorted
    ELSE <<Head(sorted)>> \o InsertByIndex(Tail(sorted), m)

RECURSIVE SortByIndex(_)
SortByIndex(matches) ==
    IF matches = <<>> THEN <<>>
    ELSE InsertByIndex(SortByIndex(SubSeq(matches, 1, Len(matches) - 1)),
                       matches[Len(matches)])

(***************************************************************************)
(* The denylist of the forward analysis                                    *)
(* (InternalMethodCallAnalysisService.isBuiltInOrCommon).                  *)
(***************************************************************************)
builtInMethods ==
    {"console", "log", "error", "warn", "info", "debug",
     "push", "pop", "shift", "unshift", "slice", "splice",
     "map", "filter", "reduce", "forEach", "find", "some", "every",
     "toString", "valueOf", "hasOwnProperty", "isPrototypeOf",
     "length", "indexOf", "lastIndexOf", "charAt", "charCodeAt",
     "if", "else", "for", "while", "do", "switch", "case", "return",
     "var", "let", "const", "function", "class", "import", "export",
     "try", "catch", "finally", "throw", "new", "delete", "typeof",
     "instanceof", "in", "of", "true", "false", "null", "undefined"}

\* String.prototype.toLowerCase on the words that occur in the documents.
toLowerCase(w) ==
    CASE w = "openNow"    -> "opennow"
      [] w = "quickStart" -> "quickstart"
      [] w = "setTimeout" -> "settimeout"
      [] w = "forEach"    -> "foreach"
      [] w = "Example"    -> "example"
      [] w = "T"          -> "t"
      [] OTHER            -> w

\* The words w of the documents with w.length < 2.
OneCharWords == {"T"}

\* /^\d/.test(w): no word of the documents starts with a digit.
StartsWithDigit(w) == FALSE

isBuiltInOrCommon(methodName) ==
    \/ toLowerCase(methodName) \in builtInMethods
    \/ methodName \in OneCharWords
    \/ StartsWithDigit(methodName)

\* String.prototype.includes on the method names of the documents.
NameIncludes(name, part) ==
    \/ name = part
    \/ name = "openNow" /\ part = "open"

(***************************************************************************)
(* Document symbols (vscode.DocumentSymbol) and the optional value.        *)
(* An optional value is a sequence: <<>> is null / undefined, <<v>> is v.  *)
(***************************************************************************)
Null == <<>>

Some(v) == <<v>>

IsNull(o) == o = <<>>

Get(o) == o[1]

MethodKinds == {"Method", "Function", "Constructor"}

\* WorkspaceSymbolCache.isMethodSymbol
\* isMethodSymbol that knows methods only: symbol.kind === SymbolKind.Method
isMethodSymbolMethodOnly(symbol) == symbol.kind = "Method"

isMethodSymbol(symbol) == symbol.kind \in MethodKinds

(***************************************************************************)
(* The workspace documents.  A file holds declarations                     *)
(*     [name, kind, sig, body, inner]                                      *)
(* optionally wrapped in a class, laid out as in recursive-example.ts:     *)
(*     class Example {                                                     *)
(*      public open() {            (sig = FALSE: public open<T>() { )      *)
(*       this.initialize();        (one statement per line)                *)
(*      }                                                                  *)
(*     }                                                                   *)
(* A statement [form, name] is a call name(); (form "plain"),              *)
(* this.name(); (form "dot") or if (name()); (form "cond").  The outline   *)
(* is what the language server reports for that text: range is the whole   *)
(* declaration from its modifier, selectionRange the name token.           *)
(***************************************************************************)
StatementLine(st) ==
    CASE st.form = "plain" -> <<" ", st.name, "(", ")", ";">>
      [] st.form = "dot"   -> <<" ", "this", ".", st.name, "(", ")", ";">>
      [] st.form = "cond"  -> <<" ", "if", " ", "(", st.name, "(", ")", ")", ";">>

HeaderLine(d) ==
    IF d.sig THEN <<" ", "public", " ", d.name, "(", ")", " ", "{">>
    ELSE <<" ", "public", " ", d.name, "<", "T", ">", "(", ")", " ", "{">>

FooterLine == <<" ", "}">>

RECURSIVE RenderDecls(_, _)
RenderDecl(d, line) ==
    LET body  == [i \in 1..Len(d.body) |-> StatementLine(d.body[i])]
        inner == RenderDecls(d.inner, line + 1 + Len(d.body))
        last  == line + 1 + Len(d.body) + Len(inner.lines)
    IN  [lines   |-> <<HeaderLine(d)>> \o body \o inner.lines \o <<FooterLine>>,
         symbols |-> <<[name           |-> d.name,
                        kind           |-> d.kind,
                        range          |-> MkRange(<<line, 1>>, <<last, 2>>),
                        selectionRange |-> MkRange(<<line, 3>>, <<line, 4>>),
                        children       |-> inner.symbols]>>]

RenderDecls(decls, line) ==
    IF decls = <<>> THEN [lines |-> <<>>, symbols |-> <<>>]
    ELSE LET first == RenderDecl(Head(decls), line)
             rest  == RenderDecls(Tail(decls), line + Len(first.lines))
         IN  [lines   |-> first.lines \o rest.lines,
              symbols |-> first.symbols \o rest.symbols]

RenderFile(program) ==
    IF program.wrap
    THEN LET members == RenderDecls(program.decls, 1)
             last    == 1 + Len(members.lines)
         IN  [lines   |-> <<<<"class", " ", "Example", " ", "{">>>>
                            \o members.lines \o <<<<"}">>>>,
              symbols |-> <<[name           |-> "Example",
                             kind           |-> "Class",
                             range          |-> MkRange(<<0, 0>>, <<last, 1>>),
                             selectionRange |-> MkRange(<<0, 2>>, <<0, 3>>),
                             children       |-> members.symbols]>>]
    ELSE RenderDecls(program.decls, 0)

(***************************************************************************)
(* JavaScript Map: a function whose domain is the set of keys.             *)
(***************************************************************************)
EmptyMap == <<>>

\* A map as the table of its entries (f @@ g keeps the entries of f and adds
\* those of g whose key f does not have).
Entries(m) == m @@ EmptyMap

MapHas(m, k) == k \in DOMAIN m

MapGetOr(m, k, default) == IF k \in DOMAIN m THEN m[k] ELSE default

MapSet(m, k, v) == (k :> v) @@ m

MapDelete(m, k) == Entries([x \in DOMAIN m \ {k} |-> m[x]])

RECURSIVE SeqSum(_)
SeqSum(ns) == IF ns = <<>> THEN 0 ELSE Head(ns) + SeqSum(Tail(ns))

RECURSIVE SetSum(_, _)
SetSum(m, keys) ==
    IF keys = {} THEN 0
    ELSE LET k == CHOOSE x \in keys : TRUE
         IN  Len(m[k]) + SetSum(m, keys \ {k})

(***************************************************************************)
(* The state.                                                              *)
(***************************************************************************)
VARIABLES
    documents,           \* file -> the open text document (text, outline, version)
    symbolProvider,      \* file -> what executeDocumentSymbolProvider answers
    definitionProvider,  \* file -> what executeDefinitionProvider answers at (0,0)
    symbolCache,         \* WorkspaceSymbolCache.symbolCache
    methodNameCache,     \* WorkspaceSymbolCache.methodNameCache
    referenceCache,      \* the reference index of the cache (name -> call sites)
    maxDepth,            \* service -> its maxDepth field
    processedMethods,    \* service -> its processedMethods set
    currentCallTree,     \* the backward tree held for display
    analysisResult,      \* the forward result held for display
    lastRun,             \* history: the inputs and the result of the last analysis or lookup
    fileLog,             \* history: file -> the last operations applied to it
    indexingInProgress,  \* WorkspaceSymbolCache.indexingInProgress
    indexingPromise,     \* WorkspaceSymbolCache.indexingPromise: the run it stands for
    runs,                \* the runs of performInitialIndexing, by the order of their start
    indexingCalls,       \* the calls of the indexing entry points that are in flight
    analyses,            \* the analyses of the views that are in flight
    unavailable          \* the files that vscode.workspace.openTextDocument fails to open

vars == <<documents, symbolProvider, definitionProvider, symbolCache,
          methodNameCache, referenceCache, maxDepth, processedMethods,
          currentCallTree, analysisResult, lastRun, fileLog,
          indexingInProgress, indexingPromise, runs, indexingCalls, analyses,
          unavailable>>

\* What the asynchronous calls in flight are made of.
asyncVars == <<indexingInProgress, indexingPromise, runs, indexingCalls, analyses>>

FileA == "/src/a"

FileB == "/src/b"

\* The files of the workspace in which several files define a method of the same
\* name: three under /p (one of them in the directory /p/a, one in its
\* subdirectory /p/a/s, one in the sibling directory /p/ab), one under /q, and
\* two files that do not define the name, /p/a/z and /r/z.
TieX == "/p/a/x"

TieW == "/p/a/s/w"

TieY == "/p/ab/y"

TieQ == "/q/v"

TieZ == "/p/a/z"

TieR == "/r/z"

\* uri.fsPath, character by character.
FsPath(uri) ==
    CASE uri = FileA -> <<"/", "s", "r", "c", "/", "a">>
      [] uri = FileB -> <<"/", "s", "r", "c", "/", "b">>
      [] uri = TieX  -> <<"/", "p", "/", "a", "/", "x">>
      [] uri = TieW  -> <<"/", "p", "/", "a", "/", "s", "/", "w">>
      [] uri = TieY  -> <<"/", "p", "/", "a", "b", "/", "y">>
      [] uri = TieQ  -> <<"/", "q", "/", "v">>
      [] uri = TieZ  -> <<"/", "p", "/", "a", "/", "z">>
      [] uri = TieR  -> <<"/", "r", "/", "z">>

\* The order in which vscode.workspace.findFiles lists the workspace.
WorkspaceFiles == <<FileA, FileB>>

Files == {WorkspaceFiles[i] : i \in 1..Len(WorkspaceFiles)}

\* The cache as one value, so that an operation is a function of it.
Cache(sc, mn, rc) == [symbolCache |-> sc, methodNameCache |-> mn, referenceCache |-> rc]

CurrentCache == Cache(symbolCache, methodNameCache, referenceCache)

EmptyCache == Cache(EmptyMap, EmptyMap, EmptyMap)

(***************************************************************************)
(* WorkspaceSymbolCache: the method name cache.                            *)
(***************************************************************************)
\* removeMethodsFromCache without its filter: the records of the file stay.
\* A removal that drops every name one of whose records belongs to the file.
removeMethodsFromCacheDropsNames(mn, uri) ==
    Entries([n \in {m \in DOMAIN mn : \A i \in DOMAIN mn[m] : mn[m][i].uri # uri} |-> mn[n]])

removeMethodsFromCacheKeepsAll(mn, uri) == mn

removeMethodsFromCache(mn, uri) ==
    LET filteredMethods(n) == SelectSeq(mn[n], LAMBDA info : info.uri # uri)
    IN  Entries([n \in {m \in DOMAIN mn : filteredMethods(m) # <<>>} |-> filteredMethods(n)])

RECURSIVE extractMethodsFromSymbols(_, _, _)
extractMethodsFromSymbols(mn, uri, symbols) ==
    IF symbols = <<>> THEN mn
    ELSE LET symbol == Head(symbols)
             methodInfo == [methodName |-> symbol.name, uri |-> uri, symbol |-> symbol]
             added == IF isMethodSymbol(symbol)
                      THEN MapSet(mn, symbol.name,
                                  Append(MapGetOr(mn, symbol.name, <<>>), methodInfo))
                      ELSE mn
             below == extractMethodsFromSymbols(added, uri, symbol.children)
         IN  extractMethodsFromSymbols(below, uri, Tail(symbols))

buildMethodNameCacheForFile(mn, uri, symbols) ==
    extractMethodsFromSymbols(removeMethodsFromCache(mn, uri), uri, symbols)

findMethodsByName(mn, methodName) == MapGetOr(mn, methodName, <<>>)

getMethodCacheStats(mn) ==
    [totalMethods |-> SetSum(mn, DOMAIN mn), uniqueMethodNames |-> Cardinality(DOMAIN mn)]

\* String.prototype.lastIndexOf('/') (zero-based, -1 when absent).
RECURSIVE LastIndexOfSlash(_)
LastIndexOfSlash(path) ==
    IF path = <<>> THEN -1
    ELSE IF path[Len(path)] = "/" THEN Len(path) - 1
    ELSE LastIndexOfSlash(SubSeq(path, 1, Len(path) - 1))

\* String.prototype.substring(0, end): a negative end counts as 0.
SubstringTo(path, end) == SubSeq(path, 1, IF end < 0 THEN 0 ELSE end)

StartsWith(path, prefix) ==
    Len(prefix) <= Len(path) /\ SubSeq(path, 1, Len(prefix)) = prefix

\* Array.prototype.find: the first element of seq whose index is in hits, as an
\* optional value.
FirstAt(seq, hits) ==
    IF hits = {} THEN Null
    ELSE Some(seq[CHOOSE i \in hits : \A j \in hits : i <= j])

\* findMethodDefinition without its tie-break: the first record, whatever the context.
findMethodDefinitionFirstRecord(mn, methodName, contextUri) ==
    IF Len(findMethodsByName(mn, methodName)) = 0 THEN Null
    ELSE Some(findMethodsByName(mn, methodName)[1])

\* WorkspaceSymbolCache.findMethodDefinition; contextUri is an optional value.
findMethodDefinition(mn, methodName, contextUri) ==
    LET methods == findMethodsByName(mn, methodName)
    IN  IF Len(methods) = 0 THEN Null
        ELSE IF Len(methods) = 1 THEN Some(methods[1])
        ELSE IF IsNull(contextUri) THEN Some(methods[1])
        ELSE LET context    == Get(contextUri)
                 sameFile   == FirstAt(methods, {i \in 1..Len(methods) :
                                                    methods[i].uri = context})
                 contextDir == SubstringTo(FsPath(context), LastIndexOfSlash(FsPath(context)))
                 sameDir    == FirstAt(methods, {i \in 1..Len(methods) :
                                  StartsWith(FsPath(methods[i].uri), contextDir)})
             IN  IF ~IsNull(sameFile) THEN sameFile
                 ELSE IF ~IsNull(sameDir) THEN sameDir
                 ELSE Some(methods[1])

(***************************************************************************)
(* The reference index of the cache: for every identifier immediately      *)
(* followed by an opening parenthesis, one record [methodName, uri, range].*)
(***************************************************************************)
scanReferences(document, uri) ==
    LET flat == document.text
        offsets == [i \in 1..(Len(flat) - 1) |-> i - 1]
        calls == SelectSeq(offsets, LAMBDA o : IsWord(TokAt(flat, o)) /\ TokAt(flat, o + 1) = "(")
    IN  [i \in 1..Len(calls) |->
            [methodName |-> TokAt(flat, calls[i]),
             uri        |-> uri,
             range      |-> MkRange(PositionAt(document, calls[i]),
                                    PositionAt(document, calls[i] + 1))]]

removeReferencesFromCache(rc, uri) ==
    LET kept(n) == SelectSeq(rc[n], LAMBDA ref : ref.uri # uri)
    IN  Entries([n \in {m \in DOMAIN rc : kept(m) # <<>>} |-> kept(n)])

RECURSIVE addReferences(_, _)
addReferences(rc, refs) ==
    IF refs = <<>> THEN rc
    ELSE LET ref == Head(refs)
         IN  addReferences(MapSet(rc, ref.methodName,
                                  Append(MapGetOr(rc, ref.methodName, <<>>), ref)),
                           Tail(refs))

buildReferenceCacheForFile(rc, uri, document) ==
    addReferences(removeReferencesFromCache(rc, uri),
                  scanReferences(document, uri))

findMethodReferences(rc, methodName) == MapGetOr(rc, methodName, <<>>)

totalReferences(rc) == SetSum(rc, DOMAIN rc)

(***************************************************************************)
(* WorkspaceSymbolCache: indexing, lookup and invalidation of one file.    *)
(***************************************************************************)
\* vscode.commands.executeCommand('vscode.executeDocumentSymbolProvider', uri):
\* the outline, an empty outline, undefined, or an error (caught by the callers).
\* vscode.workspace.openTextDocument(uri) rejects.
openTextDocumentThrows(uri) == uri \in unavailable

executeDocumentSymbolProvider(uri) ==
    CASE symbolProvider[uri] = "ready"     -> Some(documents[uri].outline)
      [] symbolProvider[uri] = "empty"     -> Some(<<>>)
      [] symbolProvider[uri] = "undefined" -> Null
      [] symbolProvider[uri] = "throws"    -> Null

updateFileCache(c, uri) ==
    LET symbols == executeDocumentSymbolProvider(uri)
    IN  IF openTextDocumentThrows(uri) \/ IsNull(symbols) THEN c
        ELSE Cache(MapSet(c.symbolCache, uri,
                          [symbols |-> Get(symbols), version |-> documents[uri].version]),
                   buildMethodNameCacheForFile(c.methodNameCache, uri, Get(symbols)),
                   buildReferenceCacheForFile(c.referenceCache, uri, documents[uri]))

indexSingleFile(c, uri) == updateFileCache(c, uri)

\* invalidateFileCache without this.removeMethodsFromCache(uri)
invalidateFileCacheKeepsMethods(c, uri) ==
    IF MapHas(c.symbolCache, uri)
    THEN Cache(MapDelete(c.symbolCache, uri), c.methodNameCache,
               removeReferencesFromCache(c.referenceCache, uri))
    ELSE c

invalidateFileCache(c, uri) ==
    IF MapHas(c.symbolCache, uri)
    THEN Cache(MapDelete(c.symbolCache, uri),
               removeMethodsFromCache(c.methodNameCache, uri),
               removeReferencesFromCache(c.referenceCache, uri))
    ELSE c

\* The cache after the call and the symbols it returns.
getSymbolsForFile(c, uri, forceRefresh) ==
    IF /\ MapHas(c.symbolCache, uri)
       /\ ~forceRefresh
       /\ \/ openTextDocumentThrows(uri)
          \/ documents[uri].version = c.symbolCache[uri].version
    THEN [cache |-> c, symbols |-> c.symbolCache[uri].symbols]
    ELSE LET updated == updateFileCache(c, uri)
         IN  [cache   |-> updated,
              symbols |-> IF MapHas(updated.symbolCache, uri)
                          THEN updated.symbolCache[uri].symbols
                          ELSE <<>>]

getCacheStats(c) ==
    [totalFiles        |-> Cardinality(DOMAIN c.symbolCache),
     cacheSize         |-> Cardinality(DOMAIN c.symbolCache),
     totalMethods      |-> getMethodCacheStats(c.methodNameCache).totalMethods,
     uniqueMethodNames |-> getMethodCacheStats(c.methodNameCache).uniqueMethodNames,
     totalReferences   |-> totalReferences(c.referenceCache)]

(***************************************************************************)
(* MethodCallAnalysisService: backward analysis ("who calls this").        *)
(* A run threads st = [cache, processed, maxDepth]: the shared cache,      *)
(* which getSymbolsForFile may fill, and the processedMethods and maxDepth *)
(* fields of the service.                                                  *)
(***************************************************************************)
Location(uri, range) == [uri |-> uri, range |-> range]

\* The locations of the definition records of a name.
DefinitionLocations(c, methodName) ==
    LET methodDefinitions == findMethodsByName(c.methodNameCache, methodName)
    IN  [i \in 1..Len(methodDefinitions) |->
            Location(methodDefinitions[i].uri, methodDefinitions[i].symbol.selectionRange)]

searchCachedReferences(c, methodName) ==
    LET methodReferences == findMethodReferences(c.referenceCache, methodName)
    IN  [i \in 1..Len(methodReferences) |->
            Location(methodReferences[i].uri, methodReferences[i].range)]
          \o DefinitionLocations(c, methodName)

RECURSIVE findMethodCallsInSymbols(_, _, _)
findMethodCallsInSymbols(methodName, symbols, uri) ==
    IF symbols = <<>> THEN <<>>
    ELSE LET symbol == Head(symbols)
         IN  (IF NameIncludes(symbol.name, methodName)
              THEN <<Location(uri, symbol.selectionRange)>> ELSE <<>>)
               \o findMethodCallsInSymbols(methodName, symbol.children, uri)
               \o findMethodCallsInSymbols(methodName, Tail(symbols), uri)

\* The loop of searchCachedSymbols over the workspace files.
RECURSIVE searchFilesForSymbols(_, _, _)
searchFilesForSymbols(c, methodName, files) ==
    IF files = <<>> THEN [cache |-> c, locations |-> <<>>]
    ELSE LET got  == getSymbolsForFile(c, Head(files), FALSE)
             rest == searchFilesForSymbols(got.cache, methodName, Tail(files))
         IN  [cache     |-> rest.cache,
              locations |-> findMethodCallsInSymbols(methodName, got.symbols, Head(files))
                              \o rest.locations]

searchCachedSymbols(c, methodName) ==
    LET definitions == DefinitionLocations(c, methodName)
        found == searchFilesForSymbols(c, methodName, WorkspaceFiles)
    IN  [cache |-> found.cache, locations |-> definitions \o found.locations]

searchWorkspaceForMethod(c, methodName) ==
    IF getCacheStats(c).totalReferences > 0
    THEN [cache |-> c, locations |-> searchCachedReferences(c, methodName)]
    ELSE searchCachedSymbols(c, methodName)

RECURSIVE findContainingMethod(_, _)
findContainingMethod(range, symbols) ==
    IF symbols = <<>> THEN Null
    ELSE LET symbol == Head(symbols)
         IN  IF isMethodSymbol(symbol) /\ RangeContains(symbol.range, range)
             THEN Some(symbol)
             ELSE LET found == findContainingMethod(range, symbol.children)
                  IN  IF ~IsNull(found) THEN found
                      ELSE findContainingMethod(range, Tail(symbols))

\* The keys of callsByFile in insertion order.
RECURSIVE FileKeys(_, _)
FileKeys(references, seen) ==
    IF references = <<>> THEN <<>>
    ELSE IF Head(references).uri \in seen THEN FileKeys(Tail(references), seen)
    ELSE <<Head(references).uri>>
           \o FileKeys(Tail(references), seen \cup {Head(references).uri})

BackwardKey(callInfo) ==
    <<callInfo.uri, callInfo.range.start[1], callInfo.range.start[2], callInfo.methodName>>

\* The filter without its two tests: the definition itself stays a reference.
IsOwnDefinitionNever(callInfo, uri, loc) == FALSE

\* The filter with strict containment only: a location equal to the definition
\* stays a reference.
IsOwnDefinitionStrictOnly(callInfo, uri, loc) ==
    /\ uri = callInfo.uri
    /\ ~RangeIsEqual(loc.range, callInfo.range)
    /\ \/ RangeContains(loc.range, callInfo.range)
       \/ RangeContains(callInfo.range, loc.range)

\* The filter of findMethodReferencesWorkspace that drops the definition itself.
IsOwnDefinition(callInfo, uri, loc) ==
    LET isSameLocation    == uri = callInfo.uri /\ RangeIsEqual(loc.range, callInfo.range)
        isDefinitionRange == /\ uri = callInfo.uri
                             /\ \/ RangeContains(loc.range, callInfo.range)
                                \/ RangeContains(callInfo.range, loc.range)
    IN  isSameLocation \/ isDefinitionRange

\* The depth guard one level late: if (currentDepth > this.maxDepth) return
depthLimitReachedLate(currentDepth, limit) == currentDepth > limit

\* if (currentDepth >= this.maxDepth) return
depthLimitReached(currentDepth, limit) == currentDepth >= limit

RECURSIVE findMethodReferencesWorkspace(_, _, _)
RECURSIVE ProcessFileGroups(_, _, _, _, _)
RECURSIVE SearchAndExpand(_, _, _)
RECURSIVE ProcessLocations(_, _, _, _, _, _)

\* The loop without the existingChild test: every location inside a method
\* pushes a child.
RECURSIVE ProcessLocationsNoExistingChild(_, _, _, _, _, _)
ProcessLocationsNoExistingChild(st, callInfo, currentDepth, uri, symbols, locations) ==
    IF locations = <<>> THEN [st |-> st, callInfo |-> callInfo]
    ELSE LET callingMethod == findContainingMethod(Head(locations).range, symbols)
         IN  IF IsNull(callingMethod)
             THEN ProcessLocationsNoExistingChild(st, callInfo, currentDepth, uri, symbols,
                                                  Tail(locations))
             ELSE LET childCallInfo ==
                          [methodName       |-> Get(callingMethod).name,
                           uri              |-> uri,
                           range            |-> Get(callingMethod).selectionRange,
                           callerMethodName |-> Some(callInfo.methodName),
                           depth            |-> currentDepth + 1,
                           children         |-> <<>>]
                      sub == findMethodReferencesWorkspace(st, childCallInfo, currentDepth + 1)
                  IN  ProcessLocationsNoExistingChild(
                          sub.st, [callInfo EXCEPT !.children = Append(@, sub.callInfo)],
                          currentDepth, uri, symbols, Tail(locations))

\* for (const location of filteredLocations) { ... }
ProcessLocations(st, callInfo, currentDepth, uri, symbols, locations) ==
    IF locations = <<>> THEN [st |-> st, callInfo |-> callInfo]
    ELSE LET callingMethod == findContainingMethod(Head(locations).range, symbols)
             existingChild ==
                 \E i \in 1..Len(callInfo.children) :
                     /\ callInfo.children[i].methodName = Get(callingMethod).name
                     /\ callInfo.children[i].uri = uri
                     /\ RangeIsEqual(callInfo.children[i].range,
                                     Get(callingMethod).selectionRange)
         IN  IF IsNull(callingMethod) \/ existingChild
             THEN ProcessLocations(st, callInfo, currentDepth, uri, symbols, Tail(locations))
             ELSE LET childCallInfo ==
                          [methodName       |-> Get(callingMethod).name,
                           uri              |-> uri,
                           range            |-> Get(callingMethod).selectionRange,
                           callerMethodName |-> Some(callInfo.methodName),
                           depth            |-> currentDepth + 1,
                           children         |-> <<>>]
                      sub == findMethodReferencesWorkspace(st, childCallInfo, currentDepth + 1)
                  IN  ProcessLocations(sub.st,
                                       [callInfo EXCEPT !.children = Append(@, sub.callInfo)],
                                       currentDepth, uri, symbols, Tail(locations))

\* for (const [fileUri, locations] of callsByFile) { ... }
ProcessFileGroups(st, callInfo, currentDepth, references, fileKeys) ==
    IF fileKeys = <<>> THEN [st |-> st, callInfo |-> callInfo]
    ELSE LET uri == Head(fileKeys)
             locations == SelectSeq(references, LAMBDA ref : ref.uri = uri)
             filteredLocations ==
                 SelectSeq(locations, LAMBDA loc : ~IsOwnDefinition(callInfo, uri, loc))
         IN  IF filteredLocations = <<>>
             THEN ProcessFileGroups(st, callInfo, currentDepth, references, Tail(fileKeys))
             ELSE LET got == getSymbolsForFile(st.cache, uri, FALSE)
                      st1 == [st EXCEPT !.cache = got.cache]
                  IN  IF got.symbols = <<>>
                      THEN ProcessFileGroups(st1, callInfo, currentDepth, references,
                                             Tail(fileKeys))
                      ELSE LET done == ProcessLocations(st1, callInfo, currentDepth, uri,
                                                        got.symbols, filteredLocations)
                           IN  ProcessFileGroups(done.st, done.callInfo, currentDepth,
                                                 references, Tail(fileKeys))

\* The try block of findMethodReferencesWorkspace, from its first await on.
SearchAndExpand(st, callInfo, currentDepth) ==
    LET found == searchWorkspaceForMethod(st.cache, callInfo.methodName)
        st1   == [st EXCEPT !.cache = found.cache]
    IN  IF found.locations = <<>> THEN [st |-> st1, callInfo |-> callInfo]
        ELSE ProcessFileGroups(st1, callInfo, currentDepth, found.locations,
                               FileKeys(found.locations, {}))

findMethodReferencesWorkspace(st, callInfo, currentDepth) ==
    IF depthLimitReached(currentDepth, st.maxDepth) THEN [st |-> st, callInfo |-> callInfo]
    ELSE IF BackwardKey(callInfo) \in st.processed THEN [st |-> st, callInfo |-> callInfo]
    ELSE SearchAndExpand([st EXCEPT !.processed = @ \cup {BackwardKey(callInfo)}],
                         callInfo, currentDepth)

\* A run that starts without this.processedMethods.clear()
ClearNothing(set) == set

\* this.processedMethods.clear()
Clear(set) == {}

\* The run of a service this = [cache, processed, maxDepth]: [st, callInfo],
\* callInfo being the tree returned.
rootCallInfo(methodSymbol, uri) ==
    [methodName       |-> methodSymbol.name,
     uri              |-> uri,
     range            |-> methodSymbol.selectionRange,
     callerMethodName |-> Null,
     depth            |-> 0,
     children         |-> <<>>]

analyzeMethodCalls(this, methodSymbol, uri) ==
    findMethodReferencesWorkspace([this EXCEPT !.processed = Clear(@)],
                                  rootCallInfo(methodSymbol, uri), 0)

(***************************************************************************)
(* InternalMethodCallAnalysisService: forward analysis ("what does this    *)
(* call").                                                                 *)
(***************************************************************************)
\* InternalMethodCallAnalysisService.findMethodDefinition: the cache first, then
\* the definition provider asked at the dummy position (0,0) of the current file.
resolveMethodDefinition(c, methodName, currentUri) ==
    LET methodInfo == findMethodDefinition(c.methodNameCache, methodName, Some(currentUri))
    IN  IF ~IsNull(methodInfo)
        THEN Some([uri   |-> Get(methodInfo).uri,
                   range |-> Get(methodInfo).symbol.selectionRange])
        ELSE IF ~IsNull(definitionProvider[currentUri])
        THEN Some([uri   |-> Get(definitionProvider[currentUri]).targetUri,
                   range |-> Get(definitionProvider[currentUri]).targetRange])
        ELSE Null

RECURSIVE findSymbolAtRange(_, _)
findSymbolAtRange(symbols, range) ==
    IF symbols = <<>> THEN Null
    ELSE LET symbol == Head(symbols)
         IN  IF RangeIsEqual(symbol.selectionRange, range)
             THEN Some(symbol)
             ELSE IF RangeContains(symbol.range, range)
             THEN LET found == findSymbolAtRange(symbol.children, range)
                  IN  IF ~IsNull(found) THEN found ELSE Some(symbol)
             ELSE findSymbolAtRange(Tail(symbols), range)

ForwardKey(definition, methodName) ==
    IF ~IsNull(definition)
    THEN <<Get(definition).uri, Get(definition).range.start[1],
           Get(definition).range.start[2]>>
    ELSE <<"unknown", methodName>>

\* The filter of removeDuplicateCalls, keeping the first call of every key.
RECURSIVE KeepFirstOfKey(_, _)
KeepFirstOfKey(calls, seen) ==
    IF calls = <<>> THEN <<>>
    ELSE LET call == Head(calls)
             key  == <<call.methodName, call.range.start[1], call.range.start[2], call.uri>>
         IN  IF key \in seen THEN KeepFirstOfKey(Tail(calls), seen)
             ELSE <<call>> \o KeepFirstOfKey(Tail(calls), seen \cup {key})

removeDuplicateCalls(calls) == KeepFirstOfKey(calls, {})

\* Array.prototype.shift: the array without its first element.
Shift(seq) == IF seq = <<>> THEN <<>> ELSE Tail(seq)

RECURSIVE countTotalCalls(_)
countTotalCalls(calls) ==
    IF calls = <<>> THEN 0
    ELSE 1 + countTotalCalls(Head(calls).children) + countTotalCalls(Tail(calls))

RECURSIVE findMethodCallsInText(_, _, _, _, _)

\* callInfo.children = <what the try block produced>; calls.push(callInfo)
PushCall(calls, callInfo, below) ==
    [st    |-> below.st,
     calls |-> Append(calls, [callInfo EXCEPT !.children = below.calls])]

\* The try block after the definition's document is open: the symbols of its
\* file, the symbol at the definition, the calls of its text without the first.
AnalyzeDefMethod(st, got, definition, currentDepth) ==
    LET defMethod == findSymbolAtRange(got.symbols, definition.range)
        st1       == [st EXCEPT !.cache = got.cache]
    IN  IF IsNull(defMethod) THEN [st |-> st1, calls |-> <<>>]
        ELSE LET below == findMethodCallsInText(
                              st1,
                              GetText(documents[definition.uri], Get(defMethod).range),
                              Get(defMethod).range,
                              definition.uri,
                              currentDepth + 1)
             IN  [st |-> below.st, calls |-> Shift(below.calls)]

\* try { ... } catch: when the definition's document fails to open, the call
\* keeps no children.
AnalyzeDefinition(st, definition, currentDepth) ==
    IF openTextDocumentThrows(definition.uri) THEN [st |-> st, calls |-> <<>>]
    ELSE AnalyzeDefMethod(st, getSymbolsForFile(st.cache, definition.uri, FALSE),
                          definition, currentDepth)

\* The loop body with if (definition) in place of if (definition && !isRecursive).
AnalyzeCallExpandsRecursive(acc, match, callRange, definition, uri, currentDepth) ==
    LET methodKey == ForwardKey(definition, match.methodName)
        callInfo  == [methodName      |-> match.methodName,
                      uri             |-> uri,
                      range           |-> callRange,
                      definitionUri   |-> IF IsNull(definition) THEN Null
                                          ELSE Some(Get(definition).uri),
                      definitionRange |-> IF IsNull(definition) THEN Null
                                          ELSE Some(Get(definition).range),
                      depth           |-> currentDepth,
                      children        |-> <<>>,
                      isResolved      |-> ~IsNull(definition),
                      isRecursive     |-> methodKey \in acc.st.processed]
    IN  IF IsNull(definition)
        THEN [st |-> acc.st, calls |-> Append(acc.calls, callInfo)]
        ELSE PushCall(acc.calls, callInfo,
                      AnalyzeDefinition([acc.st EXCEPT !.processed = @ \cup {methodKey}],
                                        Get(definition), currentDepth))

\* The body of the loop from the recursion check on, the definition being found
\* or not: acc = [st, calls] before, the same after calls.push(callInfo).
AnalyzeCall(acc, match, callRange, definition, uri, currentDepth) ==
    LET methodKey   == ForwardKey(definition, match.methodName)
        isRecursive == methodKey \in acc.st.processed
        callInfo    == [methodName      |-> match.methodName,
                        uri             |-> uri,
                        range           |-> callRange,
                        definitionUri   |-> IF IsNull(definition) THEN Null
                                            ELSE Some(Get(definition).uri),
                        definitionRange |-> IF IsNull(definition) THEN Null
                                            ELSE Some(Get(definition).range),
                        depth           |-> currentDepth,
                        children        |-> <<>>,
                        isResolved      |-> ~IsNull(definition),
                        isRecursive     |-> isRecursive]
    IN  IF IsNull(definition) \/ isRecursive
        THEN [st |-> acc.st, calls |-> Append(acc.calls, callInfo)]
        ELSE PushCall(acc.calls, callInfo,
                      AnalyzeDefinition([acc.st EXCEPT !.processed = @ \cup {methodKey}],
                                        Get(definition), currentDepth))

\* The body of for (const match of allMatches) { ... } for one match that is not
\* skipped.
ProcessMatch(acc, match, baseRange, uri, currentDepth) ==
    LET document    == documents[uri]
        startOffset == OffsetAt(document, baseRange.start) + match.index
        endOffset   == startOffset + 1
        callRange   == MkRange(PositionAt(document, startOffset),
                               PositionAt(document, endOffset))
    IN  AnalyzeCall(acc, match, callRange,
                    resolveMethodDefinition(acc.st.cache, match.methodName, uri),
                    uri, currentDepth)

\* The loop without if (currentDepth < 1) break: every match is processed.
RECURSIVE ProcessMatchesNoBreak(_, _, _, _, _)
ProcessMatchesNoBreak(acc, allMatches, baseRange, uri, currentDepth) ==
    IF allMatches = <<>> THEN acc
    ELSE IF isBuiltInOrCommon(Head(allMatches).methodName)
    THEN ProcessMatchesNoBreak(acc, Tail(allMatches), baseRange, uri, currentDepth)
    ELSE ProcessMatchesNoBreak(ProcessMatch(acc, Head(allMatches), baseRange, uri,
                                            currentDepth),
                               Tail(allMatches), baseRange, uri, currentDepth)

\* for (const match of allMatches) { ... }: a built-in name is skipped, and at
\* depth 0 the loop is left after the first push.
RECURSIVE ProcessMatches(_, _, _, _, _)
ProcessMatches(acc, allMatches, baseRange, uri, currentDepth) ==
    IF allMatches = <<>> THEN acc
    ELSE IF acc.calls # <<>> /\ currentDepth < 1 THEN acc
    ELSE IF isBuiltInOrCommon(Head(allMatches).methodName)
    THEN ProcessMatches(acc, Tail(allMatches), baseRange, uri, currentDepth)
    ELSE ProcessMatches(ProcessMatch(acc, Head(allMatches), baseRange, uri, currentDepth),
                        Tail(allMatches), baseRange, uri, currentDepth)

findMethodCallsInText(st, text, baseRange, uri, currentDepth) ==
    IF depthLimitReached(currentDepth, st.maxDepth) THEN [st |-> st, calls |-> <<>>]
    ELSE LET allMatches == SortByIndex(findAllMethodCallMatches(text))
             done == ProcessMatches([st |-> st, calls |-> <<>>], allMatches, baseRange,
                                    uri, currentDepth)
         IN  [st |-> done.st, calls |-> removeDuplicateCalls(done.calls)]

\* The run of a service this = [cache, processed, maxDepth]: [st, result],
\* result being the value returned, Null when the run threw.
analyzeInternalMethodCalls(this, methodSymbol, uri) ==
    LET methodText == GetText(documents[uri], methodSymbol.range)
        found == findMethodCallsInText([this EXCEPT !.processed = Clear(@)],
                                       methodText, methodSymbol.range, uri, 0)
    IN  IF openTextDocumentThrows(uri)
        THEN [st |-> [this EXCEPT !.processed = Clear(@)], result |-> Null]
        ELSE [st     |-> found.st,
              result |-> [rootMethod      |-> methodSymbol.name,
                          rootUri         |-> uri,
                          rootRange       |-> methodSymbol.selectionRange,
                          calls           |-> found.calls,
                          totalCallsFound |-> countTotalCalls(found.calls),
                          analysisDepth   |-> this.maxDepth]]

(***************************************************************************)
(* The workspaces the analyses run on.  The methods are those of           *)
(* recursive-example.ts; a call graph gives every method the sequence of   *)
(* names its body calls, "setTimeout" being a name that no file defines.   *)
(* A layout says how the methods are written down:                         *)
(*   "member"  methods of one class in FileA, calls written this.name();   *)
(*   "cond"    the same, calls written if (name());                        *)
(*   "generic" the same, methods declared name<T>()                        *)
(*   "nested"  openNow declared inside quickStart                          *)
(*   "split"   quickStart in a class of FileB, the others in FileA         *)
(***************************************************************************)
MethodNames == <<"open", "openNow", "quickStart">>

\* recursive-example.ts: open calls nothing, openNow calls open, quickStart calls openNow.
ExampleGraph == <<<<>>, <<"open">>, <<"openNow">>>>

\* open and openNow call each other.
MutualGraph == <<<<"openNow">>, <<"open">>, <<>>>>

\* quickStart reaches open through openNow and directly.
DiamondGraph == <<<<>>, <<"open">>, <<"openNow", "open">>>>

\* openNow calls open twice.
DoubleGraph == <<<<>>, <<"open", "open">>, <<>>>>

\* open calls a name that is defined nowhere, as openLater does.
UnknownGraph == <<<<"setTimeout">>, <<"open">>, <<"openNow">>>>

\* open calls itself.
SelfGraph == <<<<"open">>, <<>>, <<"openNow">>>>

CallGraphs ==
    {ExampleGraph, MutualGraph, DiamondGraph, DoubleGraph, UnknownGraph, SelfGraph}

Layouts == {"member", "cond", "generic", "nested", "split"}

Declaration(g, layout, i) ==
    [name  |-> MethodNames[i],
     kind  |-> "Method",
     sig   |-> layout # "generic",
     body  |-> [j \in 1..Len(g[i]) |->
                   [form |-> IF layout = "cond" THEN "cond" ELSE "dot", name |-> g[i][j]]],
     inner |-> <<>>]

EmptyProgram == [wrap |-> FALSE, decls |-> <<>>]

Programs(g, layout) ==
    LET d(i) == Declaration(g, layout, i)
    IN  CASE layout = "nested" ->
               (FileA :> [wrap |-> TRUE, decls |-> <<d(1), [d(3) EXCEPT !.inner = <<d(2)>>]>>]
                @@ FileB :> EmptyProgram)
          [] layout = "split" ->
               (FileA :> [wrap |-> TRUE, decls |-> <<d(1), d(2)>>]
                @@ FileB :> [wrap |-> TRUE, decls |-> <<d(3)>>])
          [] OTHER ->
               (FileA :> [wrap |-> TRUE, decls |-> <<d(1), d(2), d(3)>>]
                @@ FileB :> EmptyProgram)

\* vscode.workspace.openTextDocument: the document of a program at a version.
TextDocument(program, version) ==
    [program |-> program,
     lines   |-> RenderFile(program).lines,
     text    |-> FlattenLines(RenderFile(program).lines),
     starts  |-> LineStarts(RenderFile(program).lines, 0),
     outline |-> RenderFile(program).symbols,
     version |-> version]

Workspace(g, layout) == [f \in Files |-> TextDocument(Programs(g, layout)[f], 1)]

\* Every symbol of a symbol forest, parents before children.
RECURSIVE AllSymbols(_)
AllSymbols(symbols) ==
    IF symbols = <<>> THEN <<>>
    ELSE <<Head(symbols)>> \o AllSymbols(Head(symbols).children) \o AllSymbols(Tail(symbols))

Range(seq) == {seq[i] : i \in 1..Len(seq)}

\* What the commands analyse: a method, function or constructor of a document.
MethodSymbols(uri) == {s \in Range(AllSymbols(documents[uri].outline)) : isMethodSymbol(s)}

(***************************************************************************)
(* The services and views as one state machine.                            *)
(***************************************************************************)
Max(a, b) == IF a >= b THEN a ELSE b

Min(a, b) == IF a <= b THEN a ELSE b

DefaultMaxDepth == 3

DepthLimit == 10

\* setMaxDepth without the upper limit: Math.max(1, depth)
setMaxDepthNoUpperLimit(depth) == Max(1, depth)

\* The value setMaxDepth(depth) stores in the maxDepth field.
setMaxDepth(depth) == Max(1, Min(depth, DepthLimit))

MaxDepthArg == 3

DepthArgs == 0..MaxDepthArg

MaxVersion == 2

Services == {"backward", "forward"}

\* A service object: the shared cache and the fields of the service.
Service(name, depths) ==
    [cache     |-> CurrentCache,
     processed |-> processedMethods[name],
     maxDepth  |-> depths[name]]

\* What an analysis reads: the index, the documents, the depth and the providers.
Inputs(name, depths) ==
    [index       |-> CurrentCache,
     contents    |-> [f \in Files |-> documents[f].lines],
     maxDepth    |-> depths[name],
     symbols     |-> [f \in Files |-> executeDocumentSymbolProvider(f)],
     definitions |-> definitionProvider,
     unavailable |-> unavailable]

NoLog == [phase |-> "none", symbols |-> <<>>]

\* lastRun after a command that is not an analysis: the run is forgotten when
\* the command changes the index, a document or a depth.
Remembered ==
    IF /\ symbolCache' = symbolCache
       /\ methodNameCache' = methodNameCache
       /\ referenceCache' = referenceCache
       /\ documents' = documents
       /\ maxDepth' = maxDepth
    THEN lastRun ELSE Null

\* A service that has not been used since construction.
Unused(name) ==
    /\ maxDepth[name] = DefaultMaxDepth
    /\ processedMethods[name] = {}
    /\ IF name = "backward" THEN IsNull(currentCallTree) ELSE IsNull(analysisResult)

\* The three indexes of the cache, as they are in c.
SetCacheTo(c) ==
    /\ symbolCache = c.symbolCache
    /\ methodNameCache = c.methodNameCache
    /\ referenceCache = c.referenceCache

SetCache(c) ==
    /\ symbolCache' = c.symbolCache
    /\ methodNameCache' = c.methodNameCache
    /\ referenceCache' = c.referenceCache

\* Nothing in flight: the fields as the constructor leaves them.
InitAsync ==
    /\ indexingInProgress = FALSE
    /\ indexingPromise = Null
    /\ runs = <<>>
    /\ indexingCalls = <<>>
    /\ analyses = <<>>

InitCommon ==
    /\ symbolCache = EmptyMap
    /\ methodNameCache = EmptyMap
    /\ referenceCache = EmptyMap
    /\ maxDepth = [s \in Services |-> DefaultMaxDepth]
    /\ processedMethods = [s \in Services |-> {}]
    /\ currentCallTree = Null
    /\ analysisResult = Null
    /\ lastRun = Null
    /\ fileLog = [f \in Files |-> NoLog]
    /\ unavailable = {}
    /\ InitAsync

\* The link executeDefinitionProvider answers at position (0,0) of a file once it
\* answers: the first declaration of the file, none in a file without any.
DefinitionLink(docs, f) ==
    IF docs[f].outline = <<>> THEN Null
    ELSE Some([targetUri |-> f, targetRange |-> docs[f].outline[1].range])

\* The workspaces of an analysis session: the example class in every layout,
\* every call graph as members of one class, the mutual recursion also with
\* calls written as conditions and with generic headers.
Workspaces ==
    ({ExampleGraph} \X Layouts)
      \cup (CallGraphs \X {"member"})
      \cup ({MutualGraph} \X {"cond", "generic"})

InitAnalysis ==
    /\ \E w \in Workspaces : documents = Workspace(w[1], w[2])
    /\ \E answer \in {"ready", "undefined"} : symbolProvider = [f \in Files |-> answer]
    /\ definitionProvider = [f \in Files |-> Null]
    /\ InitCommon

(***************************************************************************)
(* The history of a file: fileLog[f].phase is "indexed" after an indexing  *)
(* of f stored symbols, "invalidated" after those were invalidated, and    *)
(* "restored" after an indexing stored the same symbols again.             *)
(***************************************************************************)
LogIndexed(log, symbols) ==
    [phase   |-> IF log.phase = "invalidated" /\ log.symbols = symbols
                 THEN "restored" ELSE "indexed",
     symbols |-> symbols]

LogInvalidated(log) ==
    IF log.phase \in {"indexed", "restored"} THEN [log EXCEPT !.phase = "invalidated"]
    ELSE log

\* An indexing of f: what the provider answered is what was stored.
LogIndex(log, f) ==
    LET symbols == executeDocumentSymbolProvider(f)
    IN  IF openTextDocumentThrows(f) \/ IsNull(symbols) THEN log
        ELSE [log EXCEPT ![f] = LogIndexed(@, Get(symbols))]

\* The indexings a run has made through getSymbolsForFile.
LogRun(log, before, after) ==
    [f \in Files |->
        IF MapHas(after.symbolCache, f)
           /\ (~MapHas(before.symbolCache, f)
               \/ before.symbolCache[f] # after.symbolCache[f])
        THEN LogIndexed(log[f], after.symbolCache[f].symbols)
        ELSE log[f]]

\* indexFiles: the files of the workspace, indexed in enumeration order.
RECURSIVE indexFiles(_, _)
indexFiles(c, files) ==
    IF files = <<>> THEN c
    ELSE indexFiles(indexSingleFile(c, Head(files)), Tail(files))

RECURSIVE LogIndexFiles(_, _)
LogIndexFiles(log, files) ==
    IF files = <<>> THEN log
    ELSE LogIndexFiles(LogIndex(log, Head(files)), Tail(files))

\* activate(): initializeWorkspaceIndex, i.e. performInitialIndexing.
InitializeWorkspaceIndex ==
    /\ SetCache(indexFiles(CurrentCache, WorkspaceFiles))
    /\ fileLog' = LogIndexFiles(fileLog, WorkspaceFiles)
    /\ UNCHANGED <<documents, symbolProvider, definitionProvider, maxDepth,
                   processedMethods, currentCallTree, analysisResult>>
    /\ lastRun' = Remembered
    /\ UNCHANGED <<asyncVars, unavailable>>

\* The command recalls.reindexWorkspace: clear both caches, index again.
ForceReindexWorkspace ==
    /\ SetCache(indexFiles(EmptyCache, WorkspaceFiles))
    /\ fileLog' = LogIndexFiles([f \in Files |-> LogInvalidated(fileLog[f])], WorkspaceFiles)
    /\ UNCHANGED <<documents, symbolProvider, definitionProvider, maxDepth,
                   processedMethods, currentCallTree, analysisResult>>
    /\ lastRun' = Remembered
    /\ UNCHANGED <<asyncVars, unavailable>>

\* The first call statement of the declarations, removed.
RECURSIVE HasCall(_)
HasCall(decls) ==
    /\ decls # <<>>
    /\ \/ Head(decls).body # <<>>
       \/ HasCall(Head(decls).inner)
       \/ HasCall(Tail(decls))

RECURSIVE CutFirstCall(_)
CutFirstCall(decls) ==
    IF decls = <<>> THEN <<>>
    ELSE LET d == Head(decls)
         IN  IF d.body # <<>> THEN <<[d EXCEPT !.body = Tail(@)]>> \o Tail(decls)
             ELSE IF HasCall(d.inner)
             THEN <<[d EXCEPT !.inner = CutFirstCall(@)]>> \o Tail(decls)
             ELSE <<d>> \o CutFirstCall(Tail(decls))

\* The document after a change event: "touch" changes no text (the event also
\* fires when only the dirty state changes), "cut" removes a call statement.
Changed(document, edit) ==
    IF edit = "touch" THEN document
    ELSE TextDocument([document.program EXCEPT !.decls = CutFirstCall(@)],
                      document.version + 1)

\* A change handler that leaves the cache as it is.
OnDidChangeTextDocumentKeepsEntry(f, edit) ==
    /\ edit = "cut" => (documents[f].version < MaxVersion /\ HasCall(documents[f].program.decls))
    /\ documents' = [documents EXCEPT ![f] = Changed(@, edit)]
    /\ SetCache(CurrentCache)
    /\ fileLog' = [fileLog EXCEPT ![f] = LogInvalidated(@)]
    /\ UNCHANGED <<symbolProvider, definitionProvider, maxDepth, processedMethods,
                   currentCallTree, analysisResult>>
    /\ lastRun' = Remembered
    /\ UNCHANGED <<asyncVars, unavailable>>

\* onDidChangeTextDocument: the cache entry of the document is invalidated.
OnDidChangeTextDocument(f, edit) ==
    /\ edit = "cut" => (documents[f].version < MaxVersion /\ HasCall(documents[f].program.decls))
    /\ documents' = [documents EXCEPT ![f] = Changed(@, edit)]
    /\ SetCache(invalidateFileCache(CurrentCache, f))
    /\ fileLog' = [fileLog EXCEPT ![f] = LogInvalidated(@)]
    /\ UNCHANGED <<symbolProvider, definitionProvider, maxDepth, processedMethods,
                   currentCallTree, analysisResult>>
    /\ lastRun' = Remembered
    /\ UNCHANGED <<asyncVars, unavailable>>

\* onDidSaveTextDocument and the file watcher's onDidCreate: updateFileCache.
OnDidSaveTextDocument(f) ==
    /\ SetCache(updateFileCache(CurrentCache, f))
    /\ fileLog' = LogIndex(fileLog, f)
    /\ UNCHANGED <<documents, symbolProvider, definitionProvider, maxDepth,
                   processedMethods, currentCallTree, analysisResult>>
    /\ lastRun' = Remembered
    /\ UNCHANGED <<asyncVars, unavailable>>

\* The file watcher's onDidDelete: invalidateFileCache.
OnDidDelete(f) ==
    /\ SetCache(invalidateFileCache(CurrentCache, f))
    /\ fileLog' = [fileLog EXCEPT ![f] = LogInvalidated(@)]
    /\ UNCHANGED <<documents, symbolProvider, definitionProvider, maxDepth,
                   processedMethods, currentCallTree, analysisResult>>
    /\ lastRun' = Remembered
    /\ UNCHANGED <<asyncVars, unavailable>>

\* WorkspaceSymbolCache.getSymbolsForFile called on its own; the history keeps
\* the call, the cache and the provider's answer it met, and what it returned.
GetSymbolsForFile(f, forceRefresh) ==
    LET got == getSymbolsForFile(CurrentCache, f, forceRefresh)
    IN  /\ SetCache(got.cache)
        /\ fileLog' = LogRun(fileLog, CurrentCache, got.cache)
        /\ UNCHANGED <<documents, symbolProvider, definitionProvider, maxDepth,
                       processedMethods, currentCallTree, analysisResult>>
        /\ lastRun' = Some([service |-> "cache",
                            root    |-> <<f, forceRefresh>>,
                            inputs  |-> [index   |-> CurrentCache,
                                         version |-> documents[f].version,
                                         symbols |-> executeDocumentSymbolProvider(f)],
                            result  |-> got.symbols])
    /\ UNCHANGED <<asyncVars, unavailable>>

ProviderAnswers == {"ready", "empty", "undefined", "throws"}

\* The language server of a file starts to answer differently.
LanguageServerChange(f, answer) ==
    /\ symbolProvider[f] # answer
    /\ symbolProvider' = [symbolProvider EXCEPT ![f] = answer]
    /\ UNCHANGED <<documents, definitionProvider, symbolCache, methodNameCache,
                   referenceCache, maxDepth, processedMethods, currentCallTree,
                   analysisResult, lastRun, fileLog>>
    /\ UNCHANGED <<asyncVars, unavailable>>

\* The language server becomes ready for every file.
LanguageServerReady ==
    /\ \E f \in Files : symbolProvider[f] # "ready"
    /\ symbolProvider' = [f \in Files |-> "ready"]
    /\ UNCHANGED <<documents, definitionProvider, symbolCache, methodNameCache,
                   referenceCache, maxDepth, processedMethods, currentCallTree,
                   analysisResult, lastRun, fileLog>>
    /\ UNCHANGED <<asyncVars, unavailable>>

\* The definition provider starts to answer at position (0,0) of every file that
\* has a declaration (only the forward service asks it).
DefinitionProviderReady ==
    /\ Unused("backward")
    /\ definitionProvider = [f \in Files |-> Null]
    /\ definitionProvider' = [f \in Files |-> DefinitionLink(documents, f)]
    /\ UNCHANGED <<documents, symbolProvider, symbolCache, methodNameCache,
                   referenceCache, maxDepth, processedMethods, currentCallTree,
                   analysisResult, lastRun, fileLog>>
    /\ UNCHANGED <<asyncVars, unavailable>>

(***************************************************************************)
(* The commands of the two analysis views.                                 *)
(***************************************************************************)
\* MethodCallTreeDataProvider.analyzeMethod with the depths in force.
AnalyzeMethodWith(depths, methodSymbol, uri) ==
    \E run \in {analyzeMethodCalls(Service("backward", depths), methodSymbol, uri)} :
        /\ currentCallTree' = Some(run.callInfo)
        /\ SetCache(run.st.cache)
        /\ processedMethods' = [processedMethods EXCEPT !["backward"] = run.st.processed]
        /\ lastRun' = Some([service |-> "backward",
                            root    |-> <<methodSymbol.name, uri, methodSymbol.selectionRange>>,
                            inputs  |-> Inputs("backward", depths),
                            result  |-> run.callInfo])
        /\ fileLog' = LogRun(fileLog, CurrentCache, run.st.cache)

\* The command recalls.analyzeMethod on a method of the active document.
AnalyzeMethod(uri, methodSymbol) ==
    /\ Unused("forward")
    /\ isMethodSymbol(methodSymbol)
    /\ AnalyzeMethodWith(maxDepth, methodSymbol, uri)
    /\ UNCHANGED <<documents, symbolProvider, definitionProvider, maxDepth, analysisResult>>
    /\ UNCHANGED <<asyncVars, unavailable>>

\* MethodCallTreeDataProvider.setMaxDepth: store the depth, re-analyse the held tree.
SetMaxDepth(depth) ==
    /\ Unused("forward")
    /\ maxDepth' = [maxDepth EXCEPT !["backward"] = setMaxDepth(depth)]
    /\ IF IsNull(currentCallTree)
       THEN UNCHANGED <<symbolCache, methodNameCache, referenceCache, processedMethods,
                        currentCallTree, lastRun, fileLog>>
       ELSE LET tree == Get(currentCallTree)
                rootMethod == [name           |-> tree.methodName,
                               kind           |-> "Method",
                               range          |-> tree.range,
                               selectionRange |-> tree.range,
                               children       |-> <<>>]
            IN  AnalyzeMethodWith(maxDepth', rootMethod, tree.uri)
    /\ UNCHANGED <<documents, symbolProvider, definitionProvider, analysisResult>>
    /\ UNCHANGED <<asyncVars, unavailable>>

\* The command recalls.analyzeInternalCalls on a symbol of the active document.
AnalyzeInternalCalls(uri, methodSymbol) ==
    /\ Unused("backward")
    /\ \E run \in {analyzeInternalMethodCalls(Service("forward", maxDepth),
                                                 methodSymbol, uri)} :
           /\ analysisResult' = IF IsNull(run.result) THEN analysisResult
                                ELSE Some(run.result)
           /\ SetCache(run.st.cache)
           /\ processedMethods' = [processedMethods EXCEPT !["forward"] = run.st.processed]
           /\ lastRun' = Some([service |-> "forward",
                               root    |-> <<methodSymbol.name, uri, methodSymbol.selectionRange>>,
                               inputs  |-> Inputs("forward", maxDepth),
                               result  |-> run.result])
           /\ fileLog' = LogRun(fileLog, CurrentCache, run.st.cache)
    /\ UNCHANGED <<documents, symbolProvider, definitionProvider, maxDepth, currentCallTree>>
    /\ UNCHANGED <<asyncVars, unavailable>>

\* InternalMethodCallAnalysisService.setMaxDepth
SetInternalMaxDepth(depth) ==
    /\ Unused("backward")
    /\ maxDepth' = [maxDepth EXCEPT !["forward"] = setMaxDepth(depth)]
    /\ UNCHANGED <<documents, symbolProvider, definitionProvider, symbolCache,
                   methodNameCache, referenceCache, processedMethods, currentCallTree,
                   analysisResult, fileLog>>
    /\ lastRun' = Remembered
    /\ UNCHANGED <<asyncVars, unavailable>>

(***************************************************************************)
(* Specifications.  Spec is the life of the cache on the example class;    *)
(* SpecAnalysis is a session of one of the two analysis views on any of    *)
(* the workspaces.                                                         *)
(***************************************************************************)
Init ==
    /\ \E layout \in Layouts : documents = Workspace(ExampleGraph, layout)
    /\ symbolProvider \in [Files -> ProviderAnswers]
    /\ definitionProvider = [f \in Files |-> Null]
    /\ InitCommon

Next ==
    \/ InitializeWorkspaceIndex
    \/ ForceReindexWorkspace
    \/ \E f \in Files, edit \in {"touch", "cut"} : OnDidChangeTextDocument(f, edit)
    \/ \E f \in Files : OnDidSaveTextDocument(f)
    \/ \E f \in Files : OnDidDelete(f)
    \/ \E f \in Files, forceRefresh \in BOOLEAN : GetSymbolsForFile(f, forceRefresh)
    \/ \E f \in Files, answer \in ProviderAnswers : LanguageServerChange(f, answer)

Spec == Init /\ [][Next]_vars

NextAnalysis ==
    \/ \E uri \in Files : \E methodSymbol \in MethodSymbols(uri) :
           AnalyzeMethod(uri, methodSymbol)
    \/ \E depth \in DepthArgs : SetMaxDepth(depth)
    \/ \E uri \in Files : \E methodSymbol \in MethodSymbols(uri) :
           AnalyzeInternalCalls(uri, methodSymbol)
    \/ \E depth \in DepthArgs : SetInternalMaxDepth(depth)
    \/ InitializeWorkspaceIndex
    \/ LanguageServerReady
    \/ DefinitionProviderReady

SpecAnalysis == InitAnalysis /\ [][NextAnalysis]_vars

(***************************************************************************)
(* SpecIndexing: the entry points of workspace indexing called at any time, *)
(* also while runs of performInitialIndexing are in flight.  A run is the  *)
(* one batch of its files: the indexings of the batch store in any order,  *)
(* and the run resolves after the delay that follows the batch.            *)
(***************************************************************************)
MaxRuns == 3

MaxCalls == 3

EntryPoints == {"initializeWorkspaceIndex", "reindexWorkspace", "forceReindexWorkspace"}

\* A run of performInitialIndexing that has just been called: the files whose
\* indexSingleFile has not stored yet, and whether its promise is resolved.
performInitialIndexing == [todo |-> Files, resolved |-> FALSE]

InitIndexing ==
    /\ documents = Workspace(ExampleGraph, "split")
    /\ symbolProvider \in [Files -> {"ready", "undefined"}]
    /\ definitionProvider = [f \in Files |-> Null]
    /\ InitCommon

\* A call of an entry point, up to its first await: reindexWorkspace and
\* forceReindexWorkspace clear the caches, forceReindexWorkspace resets the
\* indexing state, and initializeWorkspaceIndex returns the promise of the run
\* in flight or starts a run and awaits it.
CallEntryPoint(entry) ==
    LET inProgress == entry # "forceReindexWorkspace" /\ indexingInProgress
        promise == IF entry = "forceReindexWorkspace" THEN Null ELSE indexingPromise
        cleared == entry # "initializeWorkspaceIndex"
    IN  /\ Len(indexingCalls) < MaxCalls
        /\ IF inProgress /\ ~IsNull(promise)
           THEN /\ indexingCalls' = Append(indexingCalls,
                                           [entry |-> entry, run |-> Get(promise)])
                /\ UNCHANGED <<indexingInProgress, indexingPromise, runs>>
           ELSE /\ Len(runs) < MaxRuns
                /\ runs' = Append(runs, performInitialIndexing)
                /\ indexingInProgress' = TRUE
                /\ indexingPromise' = Some(Len(runs) + 1)
                /\ indexingCalls' = Append(indexingCalls,
                                           [entry |-> entry, run |-> Len(runs) + 1])
        /\ SetCache(IF cleared THEN EmptyCache ELSE CurrentCache)
        /\ fileLog' = IF cleared THEN [f \in Files |-> LogInvalidated(fileLog[f])]
                      ELSE fileLog
        /\ UNCHANGED <<documents, symbolProvider, definitionProvider, maxDepth,
                       processedMethods, currentCallTree, analysisResult, analyses>>
        /\ lastRun' = Remembered
        /\ UNCHANGED unavailable

\* indexFiles: an indexSingleFile of the batch of run r stores what it got.
IndexSingleFile(r, f) ==
    /\ ~runs[r].resolved
    /\ f \in runs[r].todo
    /\ runs' = [runs EXCEPT ![r].todo = @ \ {f}]
    /\ SetCache(indexSingleFile(CurrentCache, f))
    /\ fileLog' = LogIndex(fileLog, f)
    /\ UNCHANGED <<documents, symbolProvider, definitionProvider, maxDepth,
                   processedMethods, currentCallTree, analysisResult,
                   indexingInProgress, indexingPromise, indexingCalls, analyses>>
    /\ lastRun' = Remembered
    /\ UNCHANGED unavailable

\* The calls that await run r.
Awaiting(r) == {i \in DOMAIN indexingCalls : indexingCalls[i].run = r}

\* Run r resolves: the call that started it resets the indexing state in its
\* finally block, and every call that awaits the run resolves.
RunResolves(r) ==
    /\ ~runs[r].resolved
    /\ runs[r].todo = {}
    /\ runs' = [runs EXCEPT ![r].resolved = TRUE]
    /\ indexingInProgress' = FALSE
    /\ indexingPromise' = Null
    /\ indexingCalls' = SelectSeq(indexingCalls, LAMBDA call : call.run # r)
    /\ UNCHANGED <<documents, symbolProvider, definitionProvider, symbolCache,
                   methodNameCache, referenceCache, maxDepth, processedMethods,
                   currentCallTree, analysisResult, lastRun, fileLog, analyses>>
    /\ UNCHANGED unavailable

\* WorkspaceSymbolCache.isIndexingInProgress
isIndexingInProgress == indexingInProgress

NextIndexing ==
    \/ \E entry \in EntryPoints : CallEntryPoint(entry)
    \/ \E r \in DOMAIN runs, f \in Files : IndexSingleFile(r, f)
    \/ \E r \in DOMAIN runs : RunResolves(r)

SpecIndexing == InitIndexing /\ [][NextIndexing]_vars

(***************************************************************************)
(* SpecOverlap: analyses of the backward view that overlap in time.  An    *)
(* analysis is called (analyzeMethod awaits the workspace statistics),     *)
(* begins (analyzeMethodCalls runs up to the first await of                *)
(* findMethodReferencesWorkspace) and resolves (the rest of the run, and   *)
(* the assignment of currentCallTree); between these steps other analyses  *)
(* take theirs.  The index is complete, as after activation.               *)
(***************************************************************************)
MaxAnalyses == 2

InitOverlap ==
    /\ \E w \in ({ExampleGraph} \X {"member", "split"}) \cup {<<MutualGraph, "member">>} :
           documents = Workspace(w[1], w[2])
    /\ symbolProvider = [f \in Files |-> "ready"]
    /\ definitionProvider = [f \in Files |-> Null]
    /\ unavailable = {}
    /\ SetCacheTo(indexFiles(EmptyCache, WorkspaceFiles))
    /\ maxDepth = [s \in Services |-> DefaultMaxDepth]
    /\ processedMethods = [s \in Services |-> {}]
    /\ currentCallTree = Null
    /\ analysisResult = Null
    /\ lastRun = Null
    /\ fileLog = [f \in Files |-> NoLog]
    /\ InitAsync

\* MethodCallTreeDataProvider.analyzeMethod up to its first await.
analyzeMethod(methodSymbol, uri) ==
    Append(analyses, [methodSymbol |-> methodSymbol, uri |-> uri, phase |-> "called"])

\* The command recalls.analyzeMethod.
AnalyzeMethodCalled(uri, methodSymbol) ==
    /\ Len(analyses) < MaxAnalyses
    /\ isMethodSymbol(methodSymbol)
    /\ analyses' = analyzeMethod(methodSymbol, uri)
    /\ UNCHANGED <<documents, symbolProvider, definitionProvider, symbolCache,
                   methodNameCache, referenceCache, maxDepth, processedMethods,
                   currentCallTree, analysisResult, lastRun, fileLog,
                   indexingInProgress, indexingPromise, runs, indexingCalls>>
    /\ UNCHANGED unavailable

\* MethodCallTreeDataProvider.setMaxDepth: the depth is stored at once, the
\* re-analysis of the held tree is called and not awaited.
SetMaxDepthCalled(depth) ==
    /\ maxDepth' = [maxDepth EXCEPT !["backward"] = setMaxDepth(depth)]
    /\ IF IsNull(currentCallTree) THEN UNCHANGED analyses
       ELSE LET tree == Get(currentCallTree)
                rootMethod == [name           |-> tree.methodName,
                               kind           |-> "Method",
                               range          |-> tree.range,
                               selectionRange |-> tree.range,
                               children       |-> <<>>]
            IN  /\ Len(analyses) < MaxAnalyses
                /\ analyses' = analyzeMethod(rootMethod, tree.uri)
    /\ UNCHANGED <<documents, symbolProvider, definitionProvider, symbolCache,
                   methodNameCache, referenceCache, processedMethods,
                   currentCallTree, analysisResult, lastRun, fileLog,
                   indexingInProgress, indexingPromise, runs, indexingCalls>>
    /\ UNCHANGED unavailable

\* analyzeMethodCalls is called: processedMethods is cleared, the root's key is
\* added, the search of the references is awaited.  The history keeps the depth
\* and the tree the run returns when no other run takes a step before it ends.
AnalyzeMethodCallsBegins(i) ==
    LET a == analyses[i]
        alone == analyzeMethodCalls(Service("backward", maxDepth), a.methodSymbol, a.uri)
    IN  /\ a.phase = "called"
        /\ processedMethods' =
               [processedMethods EXCEPT
                   !["backward"] = Clear(@) \cup {BackwardKey(rootCallInfo(a.methodSymbol, a.uri))}]
        /\ analyses' = [analyses EXCEPT ![i] =
               [methodSymbol |-> a.methodSymbol, uri |-> a.uri, phase |-> "running",
                depth |-> maxDepth["backward"], alone |-> alone.callInfo]]
        /\ UNCHANGED <<documents, symbolProvider, definitionProvider, symbolCache,
                       methodNameCache, referenceCache, maxDepth,
                       currentCallTree, analysisResult, lastRun, fileLog,
                       indexingInProgress, indexingPromise, runs, indexingCalls>>
        /\ UNCHANGED unavailable

\* The run goes on from its await to its end, with the service's fields as they
\* are by now, and analyzeMethod assigns what it returns to currentCallTree.
AnalyzeMethodCallsResolves(i) ==
    LET a == analyses[i]
        run == SearchAndExpand(Service("backward", maxDepth),
                               rootCallInfo(a.methodSymbol, a.uri), 0)
    IN  /\ a.phase = "running"
        /\ currentCallTree' = Some(run.callInfo)
        /\ SetCache(run.st.cache)
        /\ processedMethods' = [processedMethods EXCEPT !["backward"] = run.st.processed]
        /\ fileLog' = LogRun(fileLog, CurrentCache, run.st.cache)
        /\ analyses' = [analyses EXCEPT ![i] =
               [methodSymbol |-> a.methodSymbol, uri |-> a.uri, phase |-> "resolved",
                depth |-> a.depth, alone |-> a.alone,
                sameDepth |-> maxDepth["backward"] = a.depth, result |-> run.callInfo]]
        /\ UNCHANGED <<documents, symbolProvider, definitionProvider, maxDepth,
                       analysisResult, lastRun,
                       indexingInProgress, indexingPromise, runs, indexingCalls>>
        /\ UNCHANGED unavailable

NextOverlap ==
    \/ \E uri \in Files : \E methodSymbol \in MethodSymbols(uri) :
           AnalyzeMethodCalled(uri, methodSymbol)
    \/ \E depth \in DepthArgs : SetMaxDepthCalled(depth)
    \/ \E i \in DOMAIN analyses : AnalyzeMethodCallsBegins(i)
    \/ \E i \in DOMAIN analyses : AnalyzeMethodCallsResolves(i)

SpecOverlap == InitOverlap /\ [][NextOverlap]_vars

(***************************************************************************)
(* SpecFailure: a session of the forward view on the example class while   *)
(* files stop being openable (deleted or locked on disk) and come back.    *)
(***************************************************************************)
InitFailure ==
    /\ \E layout \in {"member", "split"} : documents = Workspace(ExampleGraph, layout)
    /\ symbolProvider = [f \in Files |-> "ready"]
    /\ definitionProvider = [f \in Files |-> Null]
    /\ InitCommon

\* openTextDocument starts to fail for a file, or works again.
FileAvailability(f) ==
    /\ unavailable' = IF f \in unavailable THEN unavailable \ {f} ELSE unavailable \cup {f}
    /\ UNCHANGED <<documents, symbolProvider, definitionProvider, symbolCache,
                   methodNameCache, referenceCache, maxDepth, processedMethods,
                   currentCallTree, analysisResult, lastRun, fileLog, asyncVars>>

NextFailure ==
    \/ \E uri \in Files : \E methodSymbol \in MethodSymbols(uri) :
           AnalyzeInternalCalls(uri, methodSymbol)
    \/ \E depth \in DepthArgs : SetInternalMaxDepth(depth)
    \/ InitializeWorkspaceIndex
    \/ \E f \in Files : FileAvailability(f)

SpecFailure == InitFailure /\ [][NextFailure]_vars

(***************************************************************************)
(* SpecKinds: the cache of a workspace whose file FileA declares three     *)
(* symbols of any kinds, nested in one another or side by side, inside a   *)
(* class or at the top level of the file.                                  *)
(***************************************************************************)
SymbolKinds == {"Method", "Function", "Constructor", "Class", "Property", "Variable"}

KindDecl(i, kind, inner) ==
    [name |-> MethodNames[i], kind |-> kind, sig |-> TRUE, body |-> <<>>, inner |-> inner]

\* Three declarations of the given kinds: each inside the one before, or the
\* three of them one after the other.
KindProgram(kinds, nested, wrap) ==
    [wrap  |-> wrap,
     decls |-> IF nested
               THEN <<KindDecl(1, kinds[1],
                               <<KindDecl(2, kinds[2], <<KindDecl(3, kinds[3], <<>>)>>)>>)>>
               ELSE <<KindDecl(1, kinds[1], <<>>), KindDecl(2, kinds[2], <<>>),
                      KindDecl(3, kinds[3], <<>>)>>]

InitKinds ==
    /\ \E kinds \in [1..3 -> SymbolKinds], nested \in BOOLEAN, wrap \in BOOLEAN :
           documents = (FileA :> TextDocument(KindProgram(kinds, nested, wrap), 1)
                        @@ FileB :> TextDocument(EmptyProgram, 1))
    /\ symbolProvider = [f \in Files |-> "ready"]
    /\ definitionProvider = [f \in Files |-> Null]
    /\ InitCommon

NextKinds ==
    \/ InitializeWorkspaceIndex
    \/ ForceReindexWorkspace
    \/ \E f \in Files : OnDidSaveTextDocument(f)
    \/ \E f \in Files : OnDidChangeTextDocument(f, "touch")
    \/ \E f \in Files : OnDidDelete(f)

SpecKinds == InitKinds /\ [][NextKinds]_vars

(***************************************************************************)
(* SpecDepth: setMaxDepth of the two analysis services, called with any    *)
(* integer from below 1 to above 10.  lastRun remembers the last argument  *)
(* each service was given.                                                 *)
(***************************************************************************)
DepthOvershoot == 2

DepthInputs == (0 - DepthOvershoot)..(DepthLimit + DepthOvershoot)

DepthCalls == IF lastRun = Null THEN [s \in Services |-> Null] ELSE Get(lastRun).inputs

\* service.setMaxDepth(depth) followed by service.getMaxDepth()
SetMaxDepthOf(service, depth) ==
    /\ maxDepth' = [maxDepth EXCEPT ![service] = setMaxDepth(depth)]
    /\ lastRun' = Some([service |-> service,
                        root    |-> depth,
                        inputs  |-> [DepthCalls EXCEPT ![service] = Some(depth)],
                        result  |-> maxDepth'[service]])
    /\ UNCHANGED <<documents, symbolProvider, definitionProvider, symbolCache,
                   methodNameCache, referenceCache, processedMethods, currentCallTree,
                   analysisResult, fileLog, asyncVars, unavailable>>

InitDepth ==
    /\ documents = Workspace(ExampleGraph, "member")
    /\ symbolProvider = [f \in Files |-> "ready"]
    /\ definitionProvider = [f \in Files |-> Null]
    /\ InitCommon

NextDepth == \E service \in Services, depth \in DepthInputs : SetMaxDepthOf(service, depth)

SpecDepth == InitDepth /\ [][NextDepth]_vars

(***************************************************************************)
(* SpecExpansion: one expansion of a resolved call of the forward service  *)
(* (the block under if (definition && !isRecursive)) on an indexed         *)
(* workspace, at any depth below maxDepth and with any methods already in  *)
(* processedMethods.  lastRun keeps what the recursive call produced and   *)
(* what the node got as children.                                          *)
(***************************************************************************)
\* The keys processedMethods can hold: one for every method of the workspace.
MethodKeys ==
    UNION {{ForwardKey(Some([uri |-> f, range |-> s.selectionRange]), s.name) :
               s \in MethodSymbols(f)} : f \in Files}

\* What findMethodCallsInText returns for the text of the definition, before
\* children.shift().
ProducedChildren(this, got, definition, currentDepth) ==
    LET defMethod == findSymbolAtRange(got.symbols, definition.range)
    IN  IF IsNull(defMethod) THEN <<>>
        ELSE findMethodCallsInText([this EXCEPT !.cache = got.cache],
                                   GetText(documents[definition.uri], Get(defMethod).range),
                                   Get(defMethod).range, definition.uri,
                                   currentDepth + 1).calls

\* The expansion of a call that resolved to methodSymbol of uri.
ExpandWith(this, definition, methodSymbol, currentDepth, expansion, produced) ==
    /\ SetCache(expansion.st.cache)
    /\ processedMethods' = [processedMethods EXCEPT !["forward"] = expansion.st.processed]
    /\ fileLog' = LogRun(fileLog, CurrentCache, expansion.st.cache)
    /\ lastRun' = Some([service |-> "expansion",
                        root    |-> <<methodSymbol.name, definition.uri, definition.range>>,
                        inputs  |-> [depth     |-> currentDepth,
                                     maxDepth  |-> this.maxDepth,
                                     processed |-> this.processed],
                        result  |-> [produced |-> produced, children |-> expansion.calls]])

ExpandDefinition(uri, methodSymbol, currentDepth, processed) ==
    /\ Unused("backward")
    /\ currentDepth < maxDepth["forward"]
    /\ LET definition == [uri |-> uri, range |-> methodSymbol.selectionRange]
           this == [cache     |-> CurrentCache,
                    processed |-> processed
                                    \cup {ForwardKey(Some(definition), methodSymbol.name)},
                    maxDepth  |-> maxDepth["forward"]]
       IN  ExpandWith(this, definition, methodSymbol, currentDepth,
                      AnalyzeDefinition(this, definition, currentDepth),
                      ProducedChildren(this, getSymbolsForFile(this.cache, uri, FALSE),
                                       definition, currentDepth))
    /\ UNCHANGED <<documents, symbolProvider, definitionProvider, maxDepth,
                   currentCallTree, analysisResult, asyncVars, unavailable>>

InitExpansion ==
    /\ \E w \in Workspaces : documents = Workspace(w[1], w[2])
    /\ symbolProvider = [f \in Files |-> "ready"]
    /\ definitionProvider = [f \in Files |-> Null]
    /\ unavailable = {}
    /\ SetCacheTo(indexFiles(EmptyCache, WorkspaceFiles))
    /\ maxDepth = [s \in Services |-> DefaultMaxDepth]
    /\ processedMethods = [s \in Services |-> {}]
    /\ currentCallTree = Null
    /\ analysisResult = Null
    /\ lastRun = Null
    /\ fileLog = [f \in Files |-> NoLog]
    /\ InitAsync

NextExpansion ==
    \/ \E uri \in Files : \E methodSymbol \in MethodSymbols(uri) :
           \E currentDepth \in 0..MaxDepthArg, processed \in SUBSET MethodKeys :
               ExpandDefinition(uri, methodSymbol, currentDepth, processed)
    \/ \E depth \in DepthArgs : SetInternalMaxDepth(depth)

SpecExpansion == InitExpansion /\ [][NextExpansion]_vars

(***************************************************************************)
(* SpecRace: updateFileCache / indexSingleFile of a file in flight while   *)
(* the events of the watchers are handled.  An operation awaits twice:     *)
(* openTextDocument, then the document symbol provider.  runs holds the    *)
(* operations in flight: "opening" until the document is open, "asking"    *)
(* until the provider has computed its answer, "answered" while the answer *)
(* is on its way back; the code after the second await then stores.        *)
(***************************************************************************)
MaxOperations == 2

\* if (symbols) { this.symbolCache.set(...); this.buildMethodNameCacheForFile(...) }
\* document is the TextDocument the operation opened: its version is read now.
storeSymbols(c, uri, symbols, document) ==
    IF IsNull(symbols) THEN c
    ELSE Cache(MapSet(c.symbolCache, uri,
                      [symbols |-> Get(symbols), version |-> document.version]),
               buildMethodNameCacheForFile(c.methodNameCache, uri, Get(symbols)),
               buildReferenceCacheForFile(c.referenceCache, uri, document))

RaceFrame ==
    UNCHANGED <<symbolProvider, definitionProvider, maxDepth, processedMethods,
                currentCallTree, analysisResult, lastRun, indexingInProgress,
                indexingPromise, indexingCalls, analyses>>

\* updateFileCache(uri) or indexSingleFile(uri) is called (a save event, a
\* create event, a batch of indexFiles) and reaches its first await.
UpdateFileCacheCalled(f) ==
    /\ Len(runs) < MaxOperations
    /\ runs' = Append(runs, [uri |-> f, phase |-> "opening", symbols |-> Null])
    /\ UNCHANGED <<documents, symbolCache, methodNameCache, referenceCache, fileLog,
                   unavailable>>
    /\ RaceFrame

Without(seq, i) == [j \in 1..(Len(seq) - 1) |-> IF j < i THEN seq[j] ELSE seq[j + 1]]

\* await openTextDocument(uri): it throws for a file that is gone, and the catch
\* block ends the operation.
DocumentOpened(i) ==
    /\ runs[i].phase = "opening"
    /\ runs' = IF openTextDocumentThrows(runs[i].uri) THEN Without(runs, i)
               ELSE [runs EXCEPT ![i].phase = "asking"]
    /\ UNCHANGED <<documents, symbolCache, methodNameCache, referenceCache, fileLog,
                   unavailable>>
    /\ RaceFrame

\* The provider computes its answer from the document as it is now.
SymbolsComputed(i) ==
    /\ runs[i].phase = "asking"
    /\ runs' = [runs EXCEPT ![i].phase = "answered",
                            ![i].symbols = executeDocumentSymbolProvider(runs[i].uri)]
    /\ UNCHANGED <<documents, symbolCache, methodNameCache, referenceCache, fileLog,
                   unavailable>>
    /\ RaceFrame

\* The answer arrives: the code after the await stores it and the operation ends.
SymbolsStored(i) ==
    /\ runs[i].phase = "answered"
    /\ runs' = Without(runs, i)
    /\ SetCache(storeSymbols(CurrentCache, runs[i].uri, runs[i].symbols,
                             documents[runs[i].uri]))
    /\ fileLog' = IF IsNull(runs[i].symbols) THEN fileLog
                  ELSE [fileLog EXCEPT ![runs[i].uri] = LogIndexed(@, Get(runs[i].symbols))]
    /\ UNCHANGED <<documents, unavailable>>
    /\ RaceFrame

\* The file is deleted: fileWatcher.onDidDelete invalidates its cache entry.
FileDeleted(f) ==
    /\ f \notin unavailable
    /\ unavailable' = unavailable \cup {f}
    /\ SetCache(invalidateFileCache(CurrentCache, f))
    /\ fileLog' = [fileLog EXCEPT ![f] = LogInvalidated(@)]
    /\ UNCHANGED <<documents, runs>>
    /\ RaceFrame

\* The file is created again: fileWatcher.onDidCreate calls updateFileCache.
FileCreated(f) ==
    /\ f \in unavailable
    /\ Len(runs) < MaxOperations
    /\ unavailable' = unavailable \ {f}
    /\ runs' = Append(runs, [uri |-> f, phase |-> "opening", symbols |-> Null])
    /\ UNCHANGED <<documents, symbolCache, methodNameCache, referenceCache, fileLog>>
    /\ RaceFrame

InitRace ==
    /\ documents = Workspace(ExampleGraph, "split")
    /\ symbolProvider = [f \in Files |-> "ready"]
    /\ definitionProvider = [f \in Files |-> Null]
    /\ InitCommon

NextRace ==
    \/ \E f \in Files : UpdateFileCacheCalled(f)
    \/ \E i \in DOMAIN runs : DocumentOpened(i)
    \/ \E i \in DOMAIN runs : SymbolsComputed(i)
    \/ \E i \in DOMAIN runs : SymbolsStored(i)
    \/ \E f \in Files : FileDeleted(f)
    \/ \E f \in Files : FileCreated(f)
    \/ \E f \in Files : f \notin unavailable /\ OnDidChangeTextDocument(f, "cut")

SpecRace == InitRace /\ [][NextRace]_vars

(***************************************************************************)
(* SpecIndexRun: one run of performInitialIndexing, step by step: the wait *)
(* for the language extensions, the enumeration of the files, and the      *)
(* batches of indexFiles with the per-file indexings of a batch in flight  *)
(* together.  The files are numbered; what happens to the indexing of a    *)
(* file (its fate) is fixed when the run starts.  The run is runs[1].      *)
(***************************************************************************)
MaxIndexedFiles == 12

batchSize == 10

maxRetries == 10

\* What can happen to indexSingleFile(uri): the symbols are stored, the
\* provider returns undefined, openTextDocument throws, the provider throws.
Fates == {"stored", "noSymbols", "openThrows", "providerThrows"}

MixedFate(k) ==
    IF k % 4 = 1 THEN "stored"
    ELSE IF k % 4 = 2 THEN "openThrows"
    ELSE IF k % 4 = 3 THEN "noSymbols"
    ELSE "providerThrows"

FateAssignments(n) ==
    {[k \in 1..n |-> "stored"], [k \in 1..n |-> MixedFate(k)]}

\* How the promise of indexSingleFile settles: its try/catch spans the whole
\* body and the catch block only logs, so the promise is fulfilled whatever
\* happened.
indexSingleFileSettles(fate) == "fulfilled"

\* files.slice(i, i + batchSize) put to the whole rest of the list.
SliceToEnd(files, i) == SubSeq(files, i + 1, Len(files))

\* files.slice(i, i + batchSize)
Slice(files, i) == SubSeq(files, i + 1, Min(i + batchSize, Len(files)))

\* The loop condition of the probing loop with one iteration more.
ProbeLoopContinuesOnceMore(run) == run.retry <= maxRetries /\ ~run.symbolsFound

\* retry < maxRetries && !symbolsFound
ProbeLoopContinues(run) == run.retry < maxRetries /\ ~run.symbolsFound

IndexRunFrame ==
    UNCHANGED <<documents, symbolProvider, definitionProvider, symbolCache,
                methodNameCache, referenceCache, maxDepth, processedMethods,
                currentCallTree, analysisResult, lastRun, fileLog,
                indexingInProgress, indexingPromise, indexingCalls, analyses,
                unavailable>>

NewIndexRun(n, fates, hasTestFiles) ==
    [phase        |-> "activating",
     hasTestFiles |-> hasTestFiles,
     retry        |-> 0,
     symbolsFound |-> FALSE,
     probes       |-> 0,
     warned       |-> FALSE,
     files        |-> [k \in 1..n |-> k],
     fates        |-> fates,
     i            |-> 0,
     inFlight     |-> {},
     attempts     |-> [k \in 1..n |-> 0],
     results      |-> [k \in 1..n |-> "none"],
     indexed      |-> {},
     successCount |-> 0,
     errorCount   |-> 0]

\* waitForLanguageExtensions after its first delay: the test files are
\* looked up; without any the wait returns at once.
TestFilesFound ==
    /\ runs[1].phase = "activating"
    /\ runs' = <<[runs[1] EXCEPT !.phase = IF runs[1].hasTestFiles THEN "probing"
                                          ELSE "enumerating"]>>
    /\ IndexRunFrame

\* One iteration of the probing loop: the provider is asked about the test
\* file; symbols end the loop, an empty answer or an exception is followed by
\* a delay and the next iteration.
SymbolProviderProbed(answer) ==
    /\ runs[1].phase = "probing"
    /\ ProbeLoopContinues(runs[1])
    /\ runs' = <<[runs[1] EXCEPT !.probes = @ + 1,
                                 !.retry = @ + 1,
                                 !.symbolsFound = (answer = "symbols")]>>
    /\ IndexRunFrame

\* The loop is left and waitForLanguageExtensions returns, with a warning
\* when no symbols were found.
WaitReturned ==
    /\ runs[1].phase = "probing"
    /\ ~ProbeLoopContinues(runs[1])
    /\ runs' = <<[runs[1] EXCEPT !.phase = "enumerating",
                                 !.warned = ~runs[1].symbolsFound]>>
    /\ IndexRunFrame

\* performInitialIndexing after the wait: the files are enumerated; without
\* any the run is over, otherwise indexFiles starts.
FilesEnumerated ==
    /\ runs[1].phase = "enumerating"
    /\ runs' = <<[runs[1] EXCEPT !.phase = IF Len(runs[1].files) = 0 THEN "complete"
                                          ELSE "batching"]>>
    /\ IndexRunFrame

\* indexFiles, top of the loop with i < files.length: indexSingleFile is
\* called for every file of the batch, and each call runs up to its first
\* await.
BatchStarted ==
    LET run   == runs[1]
        batch == Range(Slice(run.files, run.i))
    IN  /\ run.phase = "batching"
        /\ run.i < Len(run.files)
        /\ runs' = <<[run EXCEPT !.phase = "settling",
                                 !.inFlight = batch,
                                 !.attempts = [k \in DOMAIN @ |->
                                                  IF k \in batch THEN @[k] + 1 ELSE @[k]]]>>
        /\ IndexRunFrame

\* One indexSingleFile of the batch comes to its end.
FileSettled(k) ==
    LET run == runs[1]
    IN  /\ run.phase = "settling"
        /\ k \in run.inFlight
        /\ runs' = <<[run EXCEPT !.inFlight = @ \ {k},
                                 !.results[k] = indexSingleFileSettles(run.fates[k]),
                                 !.indexed = IF run.fates[k] = "stored"
                                             THEN @ \cup {k} ELSE @]>>
        /\ IndexRunFrame

\* Promise.allSettled resolves: the results are counted, and after the short
\* delay the loop goes on with i + batchSize.
BatchCounted ==
    LET run   == runs[1]
        batch == Range(Slice(run.files, run.i))
    IN  /\ run.phase = "settling"
        /\ run.inFlight = {}
        /\ runs' = <<[run EXCEPT
                 !.phase = "batching",
                 !.i = @ + batchSize,
                 !.successCount = @ + Cardinality({k \in batch : run.results[k] = "fulfilled"}),
                 !.errorCount = @ + Cardinality({k \in batch : run.results[k] # "fulfilled"})]>>
        /\ IndexRunFrame

\* indexFiles leaves its loop and reports the counts; the run is over.
IndexFilesReturned ==
    /\ runs[1].phase = "batching"
    /\ runs[1].i >= Len(runs[1].files)
    /\ runs' = <<[runs[1] EXCEPT !.phase = "complete"]>>
    /\ IndexRunFrame

InitIndexRun ==
    /\ documents = Workspace(ExampleGraph, "split")
    /\ symbolProvider = [f \in Files |-> "ready"]
    /\ definitionProvider = [f \in Files |-> Null]
    /\ symbolCache = EmptyMap
    /\ methodNameCache = EmptyMap
    /\ referenceCache = EmptyMap
    /\ maxDepth = [s \in Services |-> DefaultMaxDepth]
    /\ processedMethods = [s \in Services |-> {}]
    /\ currentCallTree = Null
    /\ analysisResult = Null
    /\ lastRun = Null
    /\ fileLog = [f \in Files |-> NoLog]
    /\ unavailable = {}
    /\ indexingInProgress = TRUE
    /\ indexingPromise = Null
    /\ indexingCalls = <<>>
    /\ analyses = <<>>
    /\ \E n \in 0..MaxIndexedFiles : \E fates \in FateAssignments(n) :
       \E hasTestFiles \in BOOLEAN :
           /\ n = 0 => ~hasTestFiles
           /\ runs = <<NewIndexRun(n, fates, hasTestFiles)>>

NextIndexRun ==
    \/ TestFilesFound
    \/ \E answer \in {"symbols", "empty", "throws"} : SymbolProviderProbed(answer)
    \/ WaitReturned
    \/ FilesEnumerated
    \/ BatchStarted
    \/ \E k \in DOMAIN runs[1].files : FileSettled(k)
    \/ BatchCounted
    \/ IndexFilesReturned

SpecIndexRun == InitIndexRun /\ [][NextIndexRun]_vars

\* The run under the scheduling of the event loop: a timer that was set
\* fires, a command that was sent is answered, a promise that can settle
\* settles.
FairIndexRun == SpecIndexRun /\ WF_vars(NextIndexRun)

(***************************************************************************)
(* SpecTieBreak: the name cache of a workspace in which the files TieX,    *)
(* TieW, TieY and TieQ each define a method helper, under saves, deletions *)
(* and forced re-indexing.                                                 *)
(***************************************************************************)
TieCandidates == {TieX, TieW, TieY, TieQ}

TieFiles == TieCandidates \cup {TieZ, TieR}

TieName == "helper"

TieProgram(f) ==
    [wrap  |-> FALSE,
     decls |-> <<[name  |-> IF f \in TieCandidates THEN TieName ELSE "other",
                  kind  |-> "Method",
                  sig   |-> TRUE,
                  body  |-> <<>>,
                  inner |-> <<>>]>>]

\* The orders in which the indexings of one batch can complete: the files that
\* define the name in any order, then the two others.
TieOrders ==
    {o \o <<TieZ, TieR>> :
        o \in {p \in [1..Cardinality(TieCandidates) -> TieCandidates] :
                  \A i, j \in DOMAIN p : i # j => p[i] # p[j]}}

InitTieBreak ==
    /\ documents = [f \in TieFiles |-> TextDocument(TieProgram(f), 1)]
    /\ symbolProvider = [f \in TieFiles |-> "ready"]
    /\ definitionProvider = [f \in TieFiles |-> Null]
    /\ symbolCache = EmptyMap
    /\ methodNameCache = EmptyMap
    /\ referenceCache = EmptyMap
    /\ maxDepth = [s \in Services |-> DefaultMaxDepth]
    /\ processedMethods = [s \in Services |-> {}]
    /\ currentCallTree = Null
    /\ analysisResult = Null
    /\ lastRun = Null
    /\ fileLog = [f \in TieFiles |-> NoLog]
    /\ unavailable = {}
    /\ InitAsync

\* forceReindexWorkspace: both caches cleared, the indexings of the batch
\* completing in the given order.
TieForceReindex(order) ==
    /\ SetCache(indexFiles(EmptyCache, order))
    /\ fileLog' = LogIndexFiles([f \in TieFiles |-> LogInvalidated(fileLog[f])], order)
    /\ UNCHANGED <<documents, symbolProvider, definitionProvider, maxDepth,
                   processedMethods, currentCallTree, analysisResult>>
    /\ lastRun' = Remembered
    /\ UNCHANGED <<asyncVars, unavailable>>

\* The events are those of the files that define the name.
NextTieBreak ==
    \/ \E f \in TieCandidates : OnDidSaveTextDocument(f)
    \/ \E f \in TieCandidates : OnDidDelete(f)
    \/ \E order \in TieOrders : TieForceReindex(order)

SpecTieBreak == InitTieBreak /\ [][NextTieBreak]_vars

(***************************************************************************)
(* What the properties speak about: the declarations and call statements   *)
(* of the programs, the nodes of a result, the run that produced it.       *)
(***************************************************************************)
RECURSIVE AllDecls(_)
AllDecls(decls) ==
    IF decls = <<>> THEN <<>>
    ELSE <<Head(decls)>> \o AllDecls(Head(decls).inner) \o AllDecls(Tail(decls))

Declarations == UNION {Range(AllDecls(documents[f].program.decls)) : f \in Files}

Declared(name) == \E d \in Declarations : d.name = name

Decl(name) == CHOOSE d \in Declarations : d.name = name

\* The body of the method called caller has a call statement of callee.
CallsIn(caller, callee) ==
    /\ Declared(caller)
    /\ \E i \in 1..Len(Decl(caller).body) : Decl(caller).body[i].name = callee

NoNesting == \A d \in Declarations : d.inner = <<>>

\* The column of the called name in a call statement.
CallColumn(form) ==
    CASE form = "plain" -> 1
      [] form = "dot"   -> 3
      [] form = "cond"  -> 4

\* The ranges of the called name in the call statements of callee in the body of
\* the method whose symbol is s.
CallSites(s, callee) ==
    {MkRange(<<s.range.start[1] + i, CallColumn(Decl(s.name).body[i].form)>>,
             <<s.range.start[1] + i, CallColumn(Decl(s.name).body[i].form) + 1>>) :
        i \in {j \in 1..Len(Decl(s.name).body) : Decl(s.name).body[j].name = callee}}

\* The methods of the workspace: <<file, symbol>>.
Methods == {<<f, s>> : f \in Files, s \in UNION {MethodSymbols(g) : g \in Files}}
              \cap UNION {{<<f, s>> : s \in MethodSymbols(f)} : f \in Files}

\* Every node of a forest of call nodes, parents before children.
RECURSIVE NodesOf(_)
NodesOf(nodes) ==
    IF nodes = <<>> THEN <<>>
    ELSE <<Head(nodes)>> \o NodesOf(Head(nodes).children) \o NodesOf(Tail(nodes))

\* Every file had, when the run started, a cache entry holding its outline.
Indexed(inputs) ==
    \A f \in Files :
        /\ MapHas(inputs.index.symbolCache, f)
        /\ inputs.index.symbolCache[f].symbols = documents[f].outline
        /\ inputs.index.symbolCache[f].version = documents[f].version

BackwardRun == ~IsNull(lastRun) /\ Get(lastRun).service = "backward"

ForwardRun == ~IsNull(lastRun) /\ Get(lastRun).service = "forward"

(***************************************************************************)
(* C1.  Depth bound: whatever the root and the configured maxDepth d, no   *)
(* node of the tree held by the backward view has depth > d and its root   *)
(* has depth 0, and no node of the forest of a forward result has          *)
(* depth > d, d being the depth the result was computed with.              *)
(***************************************************************************)
C1_DepthBound ==
    /\ ~IsNull(currentCallTree) =>
           /\ Get(currentCallTree).depth = 0
           /\ \A n \in Range(NodesOf(currentCallTree)) : n.depth <= maxDepth["backward"]
    /\ ~IsNull(analysisResult) =>
           \A n \in Range(NodesOf(Get(analysisResult).calls)) :
               n.depth <= Get(analysisResult).analysisDepth

\* A backward tree cut at the depth limit: a node at depth d that has callers in
\* the program and no children in the tree.
C1_Witness ==
    /\ ~IsNull(currentCallTree)
    /\ \E n \in Range(NodesOf(currentCallTree)) :
           /\ n.depth = maxDepth["backward"]
           /\ n.children = <<>>
           /\ \E d \in Declarations : d.name # n.methodName /\ CallsIn(d.name, n.methodName)

(***************************************************************************)
(* C2.  Backward direct caller: on an indexed workspace, when the body of  *)
(* method A contains a call to B and B does not call A, the tree returned  *)
(* by analyzeMethodCalls for B has a child for A directly under the root.  *)
(***************************************************************************)
C2_BackwardDirectCaller ==
    (BackwardRun /\ Indexed(Get(lastRun).inputs)) =>
        LET tree == Get(lastRun).result
        IN  \A m \in Methods :
                (CallsIn(m[2].name, tree.methodName) /\ ~CallsIn(tree.methodName, m[2].name)) =>
                    \E i \in 1..Len(tree.children) :
                        /\ tree.children[i].methodName = m[2].name
                        /\ tree.children[i].uri = m[1]
                        /\ tree.children[i].range = m[2].selectionRange

\* The method a forward result is about.
RootMethods(result) ==
    {m \in Methods : m[1] = result.rootUri /\ m[2].selectionRange = result.rootRange}

\* The three methods of recursive-example.ts, declared side by side.
ExampleScenario ==
    \E layout \in Layouts \ {"nested"} : documents = Workspace(ExampleGraph, layout)

(***************************************************************************)
(* C3.  Forward direct callee: on an indexed workspace, when the body of   *)
(* method A contains a call to an indexed method B, the result of          *)
(* analyzeInternalMethodCalls for A has, whatever maxDepth >= 1, a node    *)
(* for that call to B.                                                     *)
(***************************************************************************)
C3_ForwardDirectCallee ==
    (ForwardRun /\ Indexed(Get(lastRun).inputs)) =>
        LET result == Get(lastRun).result
        IN  \A a \in RootMethods(result), b \in Methods :
                \A site \in CallSites(a[2], b[2].name) :
                    \E n \in Range(NodesOf(result.calls)) :
                        /\ n.methodName = b[2].name
                        /\ n.uri = a[1]
                        /\ n.range = site

\* The document symbol provider answered with an outline for every file.
ProviderAnswered(inputs) == \A f \in Files : ~IsNull(inputs.symbols[f])

(***************************************************************************)
(* C4.  Concrete backward scenario: with the three methods open (calls     *)
(* nothing), openNow (calls open) and quickStart (calls openNow) declared  *)
(* side by side and a document symbol provider that answers (the index     *)
(* warm or still empty), analyzeMethodCalls on open with maxDepth = 2      *)
(* returns root open at depth 0 with exactly one child openNow at depth 1, *)
(* which has exactly one child quickStart at depth 2, which has no         *)
(* children.                                                               *)
(***************************************************************************)
C4_BackwardScenarioCase ==
    /\ BackwardRun
    /\ ProviderAnswered(Get(lastRun).inputs)
    /\ ExampleScenario
    /\ Get(lastRun).root[1] = "open"
    /\ Get(lastRun).inputs.maxDepth = 2

C5_ForwardScenario ==
    (/\ ForwardRun
     /\ Indexed(Get(lastRun).inputs)
     /\ ExampleScenario
     /\ Get(lastRun).root[1] = "quickStart"
     /\ Get(lastRun).inputs.maxDepth = 2) =>
        LET calls == Get(lastRun).result.calls
        IN  \E i \in 1..Len(calls) :
                /\ calls[i].methodName = "openNow"
                /\ \E j \in 1..Len(calls[i].children) :
                       calls[i].children[j].methodName = "open"

(***************************************************************************)
(* C6.  Forward cycle: for two indexed methods A and B where the body of A *)
(* calls B and the body of B calls A, and maxDepth >= 3, the run of        *)
(* analyzeInternalMethodCalls on A ends with a result in which the node of *)
(* the call to A found inside B has isRecursive = true and no children.    *)
(***************************************************************************)
C6_ForwardCycle ==
    (/\ ForwardRun
     /\ Indexed(Get(lastRun).inputs)
     /\ Get(lastRun).inputs.maxDepth >= 3) =>
        LET result == Get(lastRun).result
        IN  \A a \in RootMethods(result), b \in Methods :
                (/\ a[2].name # b[2].name
                 /\ CallsIn(a[2].name, b[2].name)
                 /\ CallsIn(b[2].name, a[2].name)) =>
                    \A site \in CallSites(b[2], a[2].name) :
                        \E n \in Range(NodesOf(result.calls)) :
                            /\ n.methodName = a[2].name
                            /\ n.uri = b[1]
                            /\ n.range = site
                            /\ n.isRecursive
                            /\ n.children = <<>>

(***************************************************************************)
(* C7.  isRecursive is path-based: in every forward result a node has      *)
(* isRecursive = true only when the definition it resolves to is the       *)
(* definition of the root or of one of its ancestors in the result; a      *)
(* method reached a second time through another branch is not marked.      *)
(***************************************************************************)
\* The definition a node stands for, as the key the service computes.
DefinitionOf(n) ==
    IF n.isResolved
    THEN <<Get(n.definitionUri), Get(n.definitionRange).start>>
    ELSE <<"unknown", n.methodName>>

RECURSIVE RecursiveOnlyOnPath(_, _)
RecursiveOnlyOnPath(nodes, path) ==
    \A i \in 1..Len(nodes) :
        /\ nodes[i].isRecursive => DefinitionOf(nodes[i]) \in path
        /\ RecursiveOnlyOnPath(nodes[i].children, path \cup {DefinitionOf(nodes[i])})

C7_RecursivePathBased ==
    ForwardRun =>
        LET result == Get(lastRun).result
        IN  RecursiveOnlyOnPath(result.calls, {<<result.rootUri, result.rootRange.start>>})

(***************************************************************************)
(* C8.  Unresolved leaf: in a forward result, the node of a call to a name *)
(* that has no definition record in the name -> definition index (neither  *)
(* when the run started nor when it ended) has isResolved = false and no   *)
(* children; the run returns a result.                                     *)
(***************************************************************************)
C8_UnresolvedLeaf ==
    ForwardRun =>
        \A n \in Range(NodesOf(Get(lastRun).result.calls)) :
            (/\ findMethodsByName(Get(lastRun).inputs.index.methodNameCache,
                                  n.methodName) = <<>>
             /\ findMethodsByName(methodNameCache, n.methodName) = <<>>) =>
                (~n.isResolved /\ n.children = <<>>)

(***************************************************************************)
(* C9.  Determinism.  A step from a state that remembers an analysis to a  *)
(* state that remembers an analysis of the same root by the same service   *)
(* is the second of two consecutive analyses.                              *)
(***************************************************************************)
SameRootAgain ==
    /\ ~IsNull(lastRun)
    /\ ~IsNull(lastRun')
    /\ Get(lastRun').service = Get(lastRun).service
    /\ Get(lastRun').root = Get(lastRun).root

SameIndexContentsDepth ==
    /\ Get(lastRun').inputs.index = Get(lastRun).inputs.index
    /\ Get(lastRun').inputs.contents = Get(lastRun).inputs.contents
    /\ Get(lastRun').inputs.maxDepth = Get(lastRun).inputs.maxDepth

SameProviderAnswers ==
    /\ Get(lastRun').inputs.symbols = Get(lastRun).inputs.symbols
    /\ Get(lastRun').inputs.definitions = Get(lastRun).inputs.definitions

\* C9 as stated: with the index, the file contents and maxDepth the same for
\* both, two consecutive analyses of the same root (backward or forward) return
\* the same tree: the same nodes with the same child order.
C9_Determinism ==
    [][(SameRootAgain /\ SameIndexContentsDepth) =>
           Get(lastRun').result = Get(lastRun).result]_vars

\* C9 amended: with the index, the file contents and maxDepth the same for both,
\* and the document symbol provider and the definition provider answering the
\* same for both, two consecutive analyses of the same root (backward or
\* forward) return the same tree: the same nodes with the same child order.
C9_DeterminismSameProviders ==
    [][(SameRootAgain /\ SameIndexContentsDepth /\ SameProviderAnswers) =>
           Get(lastRun').result = Get(lastRun).result]_vars

\* Between the two analyses: the result of the first, with more than its root,
\* is held, the visited set of the service still has what the first visited, and
\* the index, the contents, the depth and the providers are those it started with.
C9_Witness ==
    /\ ~IsNull(lastRun)
    /\ LET run == Get(lastRun)
       IN  /\ run.inputs = Inputs(run.service, maxDepth)
           /\ processedMethods[run.service] # {}
           /\ IF run.service = "backward"
              THEN run.result.children # <<>> /\ currentCallTree = Some(run.result)
              ELSE \E i \in 1..Len(run.result.calls) : run.result.calls[i].children # <<>>

(***************************************************************************)
(* C10.  Invalidation round trip: after file F was indexed and then        *)
(* invalidated, F has no entry in the symbol cache and findMethodsByName   *)
(* returns the empty sequence for every method name defined only in F (and *)
(* no record of F for any name); after F was then indexed again with the   *)
(* same provider output, F has its entry again and findMethodsByName       *)
(* returns the definitions of F again, in the order of the outline.        *)
(***************************************************************************)
\* The definition records an indexing of f makes from symbols, in order.
DefinitionRecords(f, symbols) ==
    LET methods == SelectSeq(AllSymbols(symbols), isMethodSymbol)
    IN  [i \in 1..Len(methods) |->
            [methodName |-> methods[i].name, uri |-> f, symbol |-> methods[i]]]

RecordsNamed(records, name) == SelectSeq(records, LAMBDA info : info.methodName = name)

\* No other file of the workspace declares a method of that name.
DefinedOnlyIn(name, f) ==
    \A g \in Files \ {f} :
        \A s \in Range(AllSymbols(documents[g].outline)) : s.name # name

C10_InvalidationRoundTrip ==
    \A f \in Files :
        LET records == DefinitionRecords(f, fileLog[f].symbols)
            names == {records[i].methodName : i \in 1..Len(records)}
            found(name) == findMethodsByName(methodNameCache, name)
        IN  /\ fileLog[f].phase = "invalidated" =>
                  /\ ~MapHas(symbolCache, f)
                  /\ \A name \in names :
                         /\ SelectSeq(found(name), LAMBDA info : info.uri = f) = <<>>
                         /\ DefinedOnlyIn(name, f) => found(name) = <<>>
            /\ fileLog[f].phase = "restored" =>
                  /\ MapHas(symbolCache, f)
                  /\ symbolCache[f].symbols = fileLog[f].symbols
                  /\ \A name \in names :
                         /\ SelectSeq(found(name), LAMBDA info : info.uri = f)
                                = RecordsNamed(records, name)
                         /\ DefinedOnlyIn(name, f) => found(name) = RecordsNamed(records, name)

\* A file that declares methods, indexed, invalidated and indexed again.
C10_Witness ==
    \E f \in Files :
        /\ fileLog[f].phase = "restored"
        /\ DefinitionRecords(f, fileLog[f].symbols) # <<>>

\* The state in between: the file invalidated, its methods gone from the lookup.
C10_WitnessInvalidated ==
    \E f \in Files :
        /\ fileLog[f].phase = "invalidated"
        /\ DefinitionRecords(f, fileLog[f].symbols) # <<>>

(***************************************************************************)
(* Tie-break of findMethodDefinition (C11 - C13).                          *)
(***************************************************************************)
\* The definition records of the name, in list order.
TieMethods == findMethodsByName(methodNameCache, TieName)

\* The files of the records, in list order.
TieRecordFiles == [i \in 1..Len(TieMethods) |-> TieMethods[i].uri]

Resolve(context) == findMethodDefinition(methodNameCache, TieName, Some(context))

\* The directory of a file: its path up to, not including, the last slash.
DirOf(f) == SubstringTo(FsPath(f), LastIndexOfSlash(FsPath(f)))

\* File f lies in the directory dir or in a subdirectory of it.
NestedUnder(f, dir) == StartsWith(FsPath(f), dir \o <<"/">>)

(***************************************************************************)
(* C11.  Tie-break, same file: when several definitions share the name and *)
(* one of them is in the context file, findMethodDefinition returns a      *)
(* definition located in the context file, wherever in the list of records *)
(* the indexing order has put it.                                          *)
(***************************************************************************)
C11_TieBreakSameFile ==
    \A context \in TieFiles :
        (Len(TieMethods) >= 2 /\ context \in Range(TieRecordFiles)) =>
            /\ ~IsNull(Resolve(context))
            /\ Get(Resolve(context)).uri = context

\* Four candidates, and a context file whose record is the last of the list.
C11_Witness ==
    /\ Len(TieMethods) = 4
    /\ TieMethods[4].uri = TieX
    /\ Get(Resolve(TieX)).uri = TieX

(***************************************************************************)
(* C12.  Tie-break, unrelated context: with definitions of the name in     *)
(* several files and the context file TieR, which shares no directory with *)
(* them, the candidate findMethodDefinition returns stays the same over    *)
(* every save (update) of a file after which the same files are indexed:   *)
(* it is the candidate of the file that was indexed first.                 *)
(***************************************************************************)
C12_TieBreakFirstIndexed ==
    [][(/\ \E f \in TieCandidates : OnDidSaveTextDocument(f)
        /\ Len(TieMethods) >= 2
        /\ Range(TieRecordFiles') = Range(TieRecordFiles))
           => Resolve(TieR)' = Resolve(TieR)]_vars

(***************************************************************************)
(* C13.  Tie-break, directory rule: with several candidates and none in    *)
(* the context file, a candidate other than the first of the list is       *)
(* returned only if its file lies in the directory of the context file or  *)
(* in a subdirectory of it; when no candidate lies there, the first        *)
(* candidate of the list is returned.                                      *)
(***************************************************************************)
C13_TieBreakDirectory ==
    \A context \in TieFiles :
        (Len(TieMethods) >= 2 /\ context \notin Range(TieRecordFiles)) =>
            LET chosen == Get(Resolve(context))
            IN  /\ ~IsNull(Resolve(context))
                /\ chosen # TieMethods[1] => NestedUnder(chosen.uri, DirOf(context))
                /\ (\A i \in 1..Len(TieMethods) :
                        ~NestedUnder(TieMethods[i].uri, DirOf(context)))
                       => chosen = TieMethods[1]

(***************************************************************************)
(* C14.  getSymbolsForFile(F, forceRefresh) returns the cached symbols     *)
(* exactly when F has an entry, forceRefresh is false and the document's   *)
(* version equals the entry's; otherwise it returns the symbols of the     *)
(* indexing it makes, the provider's answer, and the empty forest when     *)
(* that indexing failed.                                                   *)
(***************************************************************************)
SymbolsCall == ~IsNull(lastRun) /\ Get(lastRun).service = "cache"

CacheHit(call) ==
    LET f == call.root[1]
        before == call.inputs.index.symbolCache
    IN  /\ MapHas(before, f)
        /\ ~call.root[2]
        /\ before[f].version = call.inputs.version

IndexingFailed(call) == IsNull(call.inputs.symbols)

C14_GetSymbolsContract ==
    SymbolsCall =>
        LET call == Get(lastRun)
        IN  call.result =
                IF CacheHit(call)
                THEN call.inputs.index.symbolCache[call.root[1]].symbols
                ELSE IF IndexingFailed(call) THEN <<>>
                ELSE Get(call.inputs.symbols)

(***************************************************************************)
(* C15.  Provider failure is isolated: an indexing of file F (a save, or a *)
(* workspace indexing run) for which the symbol provider returns undefined *)
(* or throws leaves F without an entry and without definition records, and *)
(* the other files of the run whose provider answers are indexed.          *)
(***************************************************************************)
ProviderFails(f) == IsNull(executeDocumentSymbolProvider(f))

NoRecordsOf(mn, f) == \A n \in DOMAIN mn : \A i \in DOMAIN mn[n] : mn[n][i].uri # f

IndexedAs(sc, mn, f, symbols) ==
    /\ MapHas(sc, f)
    /\ sc[f].symbols = symbols
    /\ \A r \in Range(DefinitionRecords(f, symbols)) :
           r \in Range(findMethodsByName(mn, r.methodName))

IndexingRun == InitializeWorkspaceIndex \/ ForceReindexWorkspace

C15_ProviderFailureIsolated ==
    [][\A f \in Files :
          (ProviderFails(f) /\ (OnDidSaveTextDocument(f) \/ IndexingRun)) =>
              /\ ~MapHas(symbolCache', f)
              /\ NoRecordsOf(methodNameCache', f)
              /\ IndexingRun =>
                     \A g \in Files \ {f} :
                         ~ProviderFails(g) =>
                             IndexedAs(symbolCache', methodNameCache', g,
                                       Get(executeDocumentSymbolProvider(g)))]_vars

\* The part of C15 about the other files of the run, on its own.
C15_OtherFilesIndexed ==
    [][IndexingRun =>
          \A g \in Files :
              ~ProviderFails(g) =>
                  IndexedAs(symbolCache', methodNameCache', g,
                            Get(executeDocumentSymbolProvider(g)))]_vars

(***************************************************************************)
(* C16.  Single indexing run: whatever the interleaving of calls of        *)
(* initializeWorkspaceIndex, reindexWorkspace and forceReindexWorkspace,   *)
(* at most one run of performInitialIndexing is in flight at any time.     *)
(***************************************************************************)
InFlight == {r \in DOMAIN runs : ~runs[r].resolved}

C16_SingleIndexingRun == Cardinality(InFlight) <= 1

(***************************************************************************)
(* C17.  Full re-index is complete: when a call of reindexWorkspace or     *)
(* forceReindexWorkspace resolves, every file of the workspace for which   *)
(* the symbol provider returns symbols has its entry and its definition    *)
(* records, also when the call was made while a run was in flight.         *)
(***************************************************************************)
Reindexing(r) ==
    \E i \in Awaiting(r) : indexingCalls[i].entry # "initializeWorkspaceIndex"

C17_ReindexComplete ==
    [][\A r \in DOMAIN runs :
          (RunResolves(r) /\ Reindexing(r)) =>
              \A f \in Files :
                  ~ProviderFails(f) =>
                      IndexedAs(symbolCache', methodNameCache', f,
                                Get(executeDocumentSymbolProvider(f)))]_vars

(***************************************************************************)
(* C18.  Overlapping analyses are isolated: an analysis run that overlaps  *)
(* another run of the same service (the depth being the same at its begin  *)
(* and at its end, the index being complete) returns the tree it returns   *)
(* when it runs alone.                                                     *)
(***************************************************************************)
Resolved == {i \in DOMAIN analyses : analyses[i].phase = "resolved"}

C19_Supersession ==
    (Len(analyses) = 2 /\ Resolved = {1, 2}) =>
        currentCallTree = Some(analyses[2].result)

(***************************************************************************)
(* C20.  Analysis failure surfaces as no result: a run of                  *)
(* analyzeInternalMethodCalls during which a document failed to open (the  *)
(* root's file, or the file of a definition the run went into) resolves to *)
(* null, not to a tree.                                                    *)
(***************************************************************************)
\* The run went into the definition of node n: line 200 opened its file.
WentInto(n) == n.isResolved /\ ~n.isRecursive

OpenThrewDuring(run) ==
    \/ run.root[2] \in run.inputs.unavailable
    \/ /\ ~IsNull(run.result)
       /\ \E n \in Range(NodesOf(run.result.calls)) :
              WentInto(n) /\ Get(n.definitionUri) \in run.inputs.unavailable

C20_FailureIsNoResult ==
    (ForwardRun /\ OpenThrewDuring(Get(lastRun))) => IsNull(Get(lastRun).result)

(***************************************************************************)
(* C21.  Kind filter: a symbol of a cached file, at any nesting level, has *)
(* a record in the name cache if and only if its kind is Method, Function  *)
(* or Constructor; the symbols of the other kinds stay in the cached tree  *)
(* and have no record, and every record of the file is one of its symbols. *)
(***************************************************************************)
RecordsOf(f) ==
    {r \in UNION {Range(methodNameCache[n]) : n \in DOMAIN methodNameCache} : r.uri = f}

HasRecord(f, symbol) ==
    \E r \in RecordsOf(f) : r.symbol = symbol /\ r.methodName = symbol.name

C21_KindFilter ==
    \A f \in DOMAIN symbolCache :
        /\ symbolCache[f].symbols = documents[f].outline
        /\ \A symbol \in Range(AllSymbols(symbolCache[f].symbols)) :
               HasRecord(f, symbol) <=>
                   symbol.kind \in {"Method", "Function", "Constructor"}
        /\ \A r \in RecordsOf(f) : r.symbol \in Range(AllSymbols(symbolCache[f].symbols))

\* FileA is cached with a class holding a property that holds a constructor:
\* the constructor, two levels below the class, has its record.
C21_Witness ==
    /\ MapHas(symbolCache, FileA)
    /\ \E c \in Range(symbolCache[FileA].symbols) :
           /\ c.kind = "Class"
           /\ \E p \in Range(c.children) :
                  /\ p.kind = "Property"
                  /\ ~HasRecord(FileA, p)
                  /\ \E m \in Range(p.children) :
                         m.kind = "Constructor" /\ HasRecord(FileA, m)

(***************************************************************************)
(* C22.  Depth configuration range: after any sequence of setMaxDepth(n)   *)
(* calls with integer n on either service, getMaxDepth() is between 1 and  *)
(* 10 and is the last n clamped to that range; before any call it is 3.    *)
(***************************************************************************)
C22_DepthRange ==
    \A service \in Services :
        /\ maxDepth[service] \in 1..10
        /\ IF DepthCalls[service] = Null
           THEN maxDepth[service] = 3
           ELSE LET n == Get(DepthCalls[service])
                IN  maxDepth[service] = IF n < 1 THEN 1 ELSE IF n > 10 THEN 10 ELSE n

\* The forward service was last given a depth above 10, the backward service
\* one below 1.
C22_Witness ==
    /\ DepthCalls["forward"] # Null /\ Get(DepthCalls["forward"]) > 10
    /\ DepthCalls["backward"] # Null /\ Get(DepthCalls["backward"]) < 1
    /\ maxDepth = [forward |-> 10, backward |-> 1]

(***************************************************************************)
(* C23.  Forward expansion rule: on an indexed workspace every node of a   *)
(* forward result that is resolved, not recursive and at depth < maxDepth  *)
(* has as children the calls of the body of its resolved definition that   *)
(* the denylist lets through, in their order, each at depth + 1.           *)
(***************************************************************************)
\* The names called in the body of a declaration, the denylisted ones left out.
BodyCalls(d) ==
    SelectSeq([i \in 1..Len(d.body) |-> d.body[i].name],
              LAMBDA name : ~isBuiltInOrCommon(name))

\* The methods a resolved node resolves to.
ResolvedMethods(n) ==
    {m \in Methods : m[1] = Get(n.definitionUri)
                     /\ m[2].selectionRange = Get(n.definitionRange)}

ChildNames(n) == [i \in 1..Len(n.children) |-> n.children[i].methodName]

C23_ForwardExpansion ==
    (ForwardRun /\ Indexed(Get(lastRun).inputs)) =>
        LET result == Get(lastRun).result
        IN  \A n \in Range(NodesOf(result.calls)) :
                (n.isResolved /\ ~n.isRecursive /\ n.depth < result.analysisDepth) =>
                    /\ \A m \in ResolvedMethods(n) :
                           ChildNames(n) = BodyCalls(Decl(m[2].name))
                    /\ \A i \in 1..Len(n.children) : n.children[i].depth = n.depth + 1

(***************************************************************************)
(* C24.  Discarded first child: the child removed from a forward expansion *)
(* is the node of the expanded method's own signature token; every other   *)
(* node the recursive call produced, every call of the body among them,    *)
(* stays a child.                                                          *)
(***************************************************************************)
ExpansionRun == ~IsNull(lastRun) /\ Get(lastRun).service = "expansion"

C24_DiscardedIsSignature ==
    ExpansionRun =>
        LET produced == Get(lastRun).result.produced
            children == Get(lastRun).result.children
        IN  \/ children = produced
            \/ /\ children = Tail(produced)
               /\ Head(produced).methodName = Get(lastRun).root[1]
               /\ Head(produced).uri = Get(lastRun).root[2]
               /\ Head(produced).range = Get(lastRun).root[3]

(***************************************************************************)
(* C25.  Depth-0 early stop: the scan of the root method's text stops      *)
(* after the first match that survives the denylist.  The top-level calls  *)
(* list of a forward result has at most one node, the node of that first   *)
(* match (none when no match survives), and every other node of the result *)
(* is below it, at depth >= 1.                                             *)
(***************************************************************************)
\* The matches of the text of the symbol s of file f that the denylist lets
\* through, in the order of their position.
SurvivingMatches(f, s) ==
    SelectSeq(SortByIndex(findAllMethodCallMatches(GetText(documents[f], s.range))),
              LAMBDA match : ~isBuiltInOrCommon(match.methodName))

MatchPosition(f, s, match) ==
    PositionAt(documents[f], OffsetAt(documents[f], s.range.start) + match.index)

C25_DepthZeroEarlyStop ==
    ForwardRun =>
        LET result == Get(lastRun).result
        IN  /\ Len(result.calls) <= 1
            /\ \A m \in RootMethods(result) :
                   LET matches == SurvivingMatches(m[1], m[2])
                   IN  IF matches = <<>> THEN result.calls = <<>>
                       ELSE /\ Len(result.calls) = 1
                            /\ result.calls[1].methodName = matches[1].methodName
                            /\ result.calls[1].range.start
                                   = MatchPosition(m[1], m[2], matches[1])
                            /\ result.calls[1].depth = 0
            /\ \A i \in 1..Len(result.calls) :
                   /\ Len(NodesOf(result.calls)) = 1 + Len(NodesOf(result.calls[i].children))
                   /\ \A n \in Range(NodesOf(result.calls[i].children)) : n.depth >= 1

\* The text of the root has three matches that survive the denylist (its own
\* name and two calls); the list has one node and the two calls are below it.
C25_Witness ==
    /\ ForwardRun
    /\ LET result == Get(lastRun).result
       IN  /\ \E m \in RootMethods(result) : Len(SurvivingMatches(m[1], m[2])) >= 3
           /\ Len(result.calls) = 1
           /\ Len(result.calls[1].children) >= 2

(***************************************************************************)
(* C26.  Forward leaf rule: in every forward result a node with            *)
(* isResolved = false or with isRecursive = true has no children.          *)
(***************************************************************************)
C26_ForwardLeafRule ==
    ForwardRun =>
        \A n \in Range(NodesOf(Get(lastRun).result.calls)) :
            (n.isResolved = FALSE \/ n.isRecursive = TRUE) => n.children = <<>>

\* A recursive node one level above the last one, whose definition has calls in
\* its body, is a leaf below a node that was expanded.
C26_Witness ==
    /\ ForwardRun
    /\ Indexed(Get(lastRun).inputs)
    /\ LET result == Get(lastRun).result
       IN  \E n \in Range(NodesOf(result.calls)) :
               /\ n.isRecursive
               /\ n.depth >= 1
               /\ n.depth + 1 < result.analysisDepth
               /\ \E m \in ResolvedMethods(n) : BodyCalls(Decl(m[2].name)) # <<>>
               /\ n.children = <<>>

(***************************************************************************)
(* C27.  Backward children are callers: every child of a node N of the     *)
(* backward tree is a method, function or constructor of the workspace     *)
(* whose range contains a call site of N.methodName; a symbol that only    *)
(* has a similar or the same name, or another definition of the name, is   *)
(* not a child.                                                            *)
(***************************************************************************)
\* The call sites of callee in the file f: the ranges of the name in call
\* position in the bodies of the methods of f.
CallSitesIn(f, callee) == UNION {CallSites(s, callee) : s \in MethodSymbols(f)}

\* The node child stands for a method of the workspace that calls callee.
IsCallerOf(child, callee) ==
    \E s \in MethodSymbols(child.uri) :
        /\ s.name = child.methodName
        /\ s.selectionRange = child.range
        /\ s.kind \in {"Method", "Function", "Constructor"}
        /\ \E site \in CallSitesIn(child.uri, callee) : RangeContains(s.range, site)

C27_ChildrenAreCallers ==
    BackwardRun =>
        \A n \in Range(NodesOf(<<Get(lastRun).result>>)) :
            \A i \in 1..Len(n.children) : IsCallerOf(n.children[i], n.methodName)

(***************************************************************************)
(* C28.  Own definition excluded: on an indexed workspace every child of a *)
(* node of the backward tree comes from a reference location that neither  *)
(* coincides with, nor contains, nor is contained in the node's own        *)
(* definition range; the locations that do produce no child.               *)
(***************************************************************************)
\* The location touches the definition range of the node.
TouchesOwnDefinition(loc, n) ==
    /\ loc.uri = n.uri
    /\ \/ loc.range = n.range
       \/ PosLE(loc.range.start, n.range.start) /\ PosLE(n.range.end, loc.range.end)
       \/ PosLE(n.range.start, loc.range.start) /\ PosLE(loc.range.end, n.range.end)

\* The locations the search of the references of a name gives on the index c.
ReferenceLocations(c, methodName) ==
    Range(searchWorkspaceForMethod(c, methodName).locations)

\* The node child is what the location gives as calling method.
ProducedBy(c, loc, child) ==
    /\ loc.uri = child.uri
    /\ MapHas(c.symbolCache, loc.uri)
    /\ LET callingMethod == findContainingMethod(loc.range, c.symbolCache[loc.uri].symbols)
       IN  /\ ~IsNull(callingMethod)
           /\ Get(callingMethod).name = child.methodName
           /\ Get(callingMethod).selectionRange = child.range

C28_OwnDefinitionExcluded ==
    (BackwardRun /\ Indexed(Get(lastRun).inputs)) =>
        LET c == Get(lastRun).inputs.index
        IN  \A n \in Range(NodesOf(<<Get(lastRun).result>>)) :
                \A i \in 1..Len(n.children) :
                    \E loc \in ReferenceLocations(c, n.methodName) :
                        ~TouchesOwnDefinition(loc, n) /\ ProducedBy(c, loc, n.children[i])

\* The references of the root hold its own definition, which would give the
\* root as its own caller; the root has a child and is not its own child.
C28_Witness ==
    /\ BackwardRun
    /\ Indexed(Get(lastRun).inputs)
    /\ LET c    == Get(lastRun).inputs.index
           root == Get(lastRun).result
       IN  /\ \E loc \in ReferenceLocations(c, root.methodName) :
                  TouchesOwnDefinition(loc, root) /\ ProducedBy(c, loc, root)
           /\ root.children # <<>>
           /\ \A i \in 1..Len(root.children) : root.children[i].range # root.range

(***************************************************************************)
(* C29.  Smallest enclosing caller: on an indexed workspace the caller     *)
(* reported for a reference is the smallest (deepest-nested) symbol of     *)
(* kind Method, Function or Constructor whose range contains it: every     *)
(* child of a node is such a symbol for one of the node's references, the  *)
(* root has a child for each of its references that lies in one, and a     *)
(* reference that lies in none gives no child.                             *)
(***************************************************************************)
\* The symbols of kind Method, Function or Constructor around a location.
EnclosingMethods(c, loc) ==
    {s \in Range(AllSymbols(c.symbolCache[loc.uri].symbols)) :
        /\ s.kind \in {"Method", "Function", "Constructor"}
        /\ RangeContains(s.range, loc.range)}

SmallestEnclosing(c, loc) ==
    {s \in EnclosingMethods(c, loc) :
        \A t \in EnclosingMethods(c, loc) : RangeContains(t.range, s.range)}

\* The references of a node that the own-definition filter lets through.
CallerLocations(c, n) ==
    {loc \in ReferenceLocations(c, n.methodName) : ~TouchesOwnDefinition(loc, n)}

IsNodeOf(child, uri, s) ==
    child.uri = uri /\ child.methodName = s.name /\ child.range = s.selectionRange

C29_SmallestEnclosingCaller ==
    (BackwardRun /\ Indexed(Get(lastRun).inputs)) =>
        LET c    == Get(lastRun).inputs.index
            root == Get(lastRun).result
        IN  /\ \A n \in Range(NodesOf(<<root>>)) :
                   \A i \in 1..Len(n.children) :
                       \E loc \in CallerLocations(c, n) :
                           \E s \in SmallestEnclosing(c, loc) :
                               IsNodeOf(n.children[i], loc.uri, s)
            /\ \A loc \in CallerLocations(c, root) :
                   \A s \in SmallestEnclosing(c, loc) :
                       \E i \in 1..Len(root.children) : IsNodeOf(root.children[i], loc.uri, s)

(***************************************************************************)
(* C30.  Visited set: within one backward run the references of a node key *)
(* (file, start of its range, method name) are looked up at most once: of  *)
(* the nodes of the returned tree that have the same key, taken in the     *)
(* order of the traversal, only the first can have children, every later   *)
(* one is a leaf.                                                          *)
(***************************************************************************)
VisitedKey(n) == <<n.uri, n.range.start, n.methodName>>

\* Only the first node of every key has children.
ExpandedOnce(tree) ==
    LET nodes == NodesOf(<<tree>>)
    IN  \A i, j \in 1..Len(nodes) :
            (i < j /\ VisitedKey(nodes[i]) = VisitedKey(nodes[j])) =>
                nodes[j].children = <<>>

C30_VisitedSetAlone == BackwardRun => ExpandedOnce(Get(lastRun).result)

(***************************************************************************)
(* C31.  Sibling de-duplication: in every backward tree no two children of *)
(* the same node have the same method name, file and selectionRange,       *)
(* however many references the same caller contains.                       *)
(***************************************************************************)
C31_SiblingsDistinct ==
    BackwardRun =>
        \A n \in Range(NodesOf(<<Get(lastRun).result>>)) :
            \A i, j \in 1..Len(n.children) :
                (/\ n.children[i].methodName = n.children[j].methodName
                 /\ n.children[i].uri = n.children[j].uri
                 /\ n.children[i].range = n.children[j].range) => i = j

\* The root has two references inside the same caller and that caller is a
\* child of the root.
C31_Witness ==
    /\ BackwardRun
    /\ Indexed(Get(lastRun).inputs)
    /\ LET c    == Get(lastRun).inputs.index
           root == Get(lastRun).result
       IN  \E i \in 1..Len(root.children) :
               \E loc1, loc2 \in CallerLocations(c, root) :
                   /\ loc1 # loc2
                   /\ ProducedBy(c, loc1, root.children[i])
                   /\ ProducedBy(c, loc2, root.children[i])

(***************************************************************************)
(* C32.  Deleted files stay out of the index: after the delete event of a  *)
(* file, once no operation is in flight, the file has no FileSymbolEntry   *)
(* and no definition record until it is created again, however the delete  *)
(* was interleaved with the operations on the file that were in flight.    *)
(***************************************************************************)
C32_DeletedStaysOut ==
    \A f \in Files :
        (f \in unavailable /\ runs = <<>>) =>
            ~MapHas(symbolCache, f) /\ RecordsOf(f) = {}

(***************************************************************************)
(* C33.  Version consistency: whenever a file has a FileSymbolEntry whose  *)
(* stored version is the current version of the document, the symbol tree  *)
(* of the entry is the outline of the document's current content, however  *)
(* the edits are interleaved with the operations in flight.                *)
(***************************************************************************)
C33_VersionConsistency ==
    \A f \in Files :
        (MapHas(symbolCache, f) /\ symbolCache[f].version = documents[f].version) =>
            symbolCache[f].symbols = documents[f].outline

(***************************************************************************)
(* C34.  The definition mapping is derived from the symbol cache: in every *)
(* reachable state the definition records of a file are exactly the        *)
(* Method / Function / Constructor symbols of the file's cached symbol     *)
(* tree, once each and in the order of the tree, none when the file has no *)
(* FileSymbolEntry; and no method name maps to an empty candidate list.    *)
(***************************************************************************)
\* The symbols of the records of the file f under the name n, in list order.
RecordedSymbols(f, n) ==
    LET records == SelectSeq(methodNameCache[n], LAMBDA info : info.uri = f)
    IN  [i \in 1..Len(records) |-> records[i].symbol]

\* The symbols of the cached tree of f that are definitions of the name n.
CachedDefinitions(f, n) ==
    IF MapHas(symbolCache, f)
    THEN SelectSeq(AllSymbols(symbolCache[f].symbols),
                   LAMBDA symbol : /\ symbol.kind \in {"Method", "Function", "Constructor"}
                                   /\ symbol.name = n)
    ELSE <<>>

CachedNames ==
    UNION {{symbol.name : symbol \in Range(AllSymbols(symbolCache[f].symbols))} :
              f \in DOMAIN symbolCache}

C34_DefinitionsDerived ==
    /\ \A n \in DOMAIN methodNameCache :
           /\ methodNameCache[n] # <<>>
           /\ \A i \in 1..Len(methodNameCache[n]) : methodNameCache[n][i].methodName = n
           /\ \A f \in Files : RecordedSymbols(f, n) = CachedDefinitions(f, n)
    /\ \A n \in CachedNames \ DOMAIN methodNameCache :
           \A f \in Files : CachedDefinitions(f, n) = <<>>

\* One file is cached with its definition records while the other, which
\* declares methods, has been invalidated and has neither entry nor records.
C34_Witness ==
    \E f, g \in Files :
        /\ MapHas(symbolCache, f) /\ Cardinality(RecordsOf(f)) >= 2
        /\ fileLog[g].phase = "invalidated"
        /\ MethodSymbols(g) # {}
        /\ ~MapHas(symbolCache, g) /\ RecordsOf(g) = {}


\* The records of a name's candidate list that do not belong to file f, in
\* their order.
RecordsExcept(mn, n, f) ==
    SelectSeq(MapGetOr(mn, n, <<>>), LAMBDA info : info.uri # f)

\* The step leaves the entry and the records of every file other than f as
\* they were, their order inside every candidate list included.
OtherFilesUnchanged(f) ==
    /\ \A g \in (DOMAIN documents) \ {f} :
          /\ MapHas(symbolCache', g) = MapHas(symbolCache, g)
          /\ MapHas(symbolCache, g) => symbolCache'[g] = symbolCache[g]
    /\ \A n \in (DOMAIN methodNameCache) \cup (DOMAIN methodNameCache') :
          RecordsExcept(methodNameCache', n, f) = RecordsExcept(methodNameCache, n, f)

\* C35: indexing or updating a file (the save handler) and invalidating it
\* (the delete handler) leave the FileSymbolEntry and the definition records
\* of every other file unchanged, the relative order of the other files'
\* records inside each name's candidate list included.
C35_PerFileFrame ==
    [][\A f \in DOMAIN documents :
          (OnDidSaveTextDocument(f) \/ OnDidDelete(f)) => OtherFilesUnchanged(f)]_vars

\* A state reached by such a step with something to preserve: a file that
\* was indexed has been invalidated and has no entry and no record left,
\* while the three other files that define the shared name are cached, each
\* with its record in the name's candidate list.
C35_Witness ==
    \E f \in TieCandidates :
        /\ fileLog[f].phase = "invalidated"
        /\ ~MapHas(symbolCache, f)
        /\ RecordsOf(f) = {}
        /\ MapHas(methodNameCache, TieName)
        /\ \A g \in TieCandidates \ {f} :
              /\ MapHas(symbolCache, g)
              /\ \E i \in DOMAIN methodNameCache[TieName] :
                    methodNameCache[TieName][i].uri = g


\* Neither name lookup returns a record of file f, whatever the name and the
\* context.
NoLookupFrom(mn, f) ==
    \A n \in DOMAIN mn :
        /\ \A i \in DOMAIN findMethodsByName(mn, n) : findMethodsByName(mn, n)[i].uri # f
        /\ \A contextUri \in {Null} \cup {Some(g) : g \in Files} :
              \/ IsNull(findMethodDefinition(mn, n, contextUri))
              \/ Get(findMethodDefinition(mn, n, contextUri)).uri # f

\* File f has no FileSymbolEntry and the lookups return nothing from it.
OutOfIndex(sc, mn, f) == ~MapHas(sc, f) /\ NoLookupFrom(mn, f)

\* The step is a text-change event on file f; the version of the text is
\* compared first.
ChangeStep(f, edit) ==
    /\ documents'[f].version = documents[f].version + (IF edit = "cut" THEN 1 ELSE 0)
    /\ OnDidChangeTextDocument(f, edit)

\* C36: a text-change event on file f leaves f without FileSymbolEntry and
\* the name lookups without any record of f, and f stays so until f is saved
\* or created, read through getSymbolsForFile, or the workspace is
\* re-indexed: no other step brings f back.
C36_EditInvalidation ==
    [][\A f \in Files :
          /\ (\E edit \in {"touch", "cut"} : ChangeStep(f, edit))
                 => OutOfIndex(symbolCache', methodNameCache', f)
          /\ (/\ OutOfIndex(symbolCache, methodNameCache, f)
              /\ ~OutOfIndex(symbolCache', methodNameCache', f))
                 => \/ OnDidSaveTextDocument(f)
                    \/ \E forceRefresh \in BOOLEAN : GetSymbolsForFile(f, forceRefresh)
                    \/ InitializeWorkspaceIndex
                    \/ ForceReindexWorkspace]_vars

\* An indexed file that declares methods has been edited: its text is at a
\* later version, and its entry and its records are gone.
C36_Witness ==
    \E f \in Files :
        /\ fileLog[f].phase = "invalidated"
        /\ documents[f].version > 1
        /\ DefinitionRecords(f, fileLog[f].symbols) # <<>>
        /\ OutOfIndex(symbolCache, methodNameCache, f)
        /\ \E g \in Files \ {f} : MapHas(symbolCache, g)


(***************************************************************************)
(* The indexing run (C37 - C39).                                           *)
(***************************************************************************)
\* The number of the batch the file at position k of the list belongs to.
BatchNumber(k) == (k - 1) \div batchSize

\* C37: within one indexing run at most 10 per-file indexings are in flight
\* at any moment, no file of a later batch is started before every file of
\* the earlier batches has settled, no file is attempted twice, and when the
\* run is over every enumerated file has been attempted exactly once.
C37_BoundedBatches ==
    LET run == runs[1]
    IN  /\ Cardinality(run.inFlight) <= 10
        /\ \A k, m \in DOMAIN run.files :
              (BatchNumber(k) < BatchNumber(m) /\ run.attempts[m] > 0)
                 => (run.results[k] # "none" /\ k \notin run.inFlight)
        /\ \A k \in DOMAIN run.files :
              /\ run.attempts[k] <= 1
              /\ k \in run.inFlight => run.attempts[k] = 1
              /\ run.phase = "complete" => run.attempts[k] = 1

\* The second batch is in flight after a first batch of ten files: one of its
\* files has settled, another has not.
C37_Witness ==
    LET run == runs[1]
    IN  /\ run.phase = "settling"
        /\ run.i = batchSize
        /\ run.inFlight # {}
        /\ \E k \in DOMAIN run.files :
              BatchNumber(k) = 1 /\ k \notin run.inFlight /\ run.results[k] # "none"
        /\ Cardinality({k \in DOMAIN run.files : run.results[k] # "none"}) = batchSize + 1

\* The files whose indexing failed, and the files that were indexed.
FailedFiles(run) ==
    {k \in DOMAIN run.files : run.fates[k] \in {"openThrows", "providerThrows"}}

IndexedFiles(run) == {k \in DOMAIN run.files : run.fates[k] = "stored"}

\* C38: at the end of an indexing run the failed count of indexFiles is the
\* number of files whose indexing failed (the provider or openTextDocument
\* threw) and the successful count is the number of files that were indexed.
C38_FailuresCounted ==
    LET run == runs[1]
    IN  run.phase = "complete" =>
            /\ run.errorCount = Cardinality(FailedFiles(run))
            /\ run.successCount = Cardinality(IndexedFiles(run))

\* C39: waitForLanguageExtensions probes the symbol provider at most 10
\* times, whatever the provider answers, and then returns: the run always
\* gets past the wait, to the enumeration and the indexing of the files.
C39_BoundedWait ==
    /\ [](runs[1].probes <= 10)
    /\ <>(runs[1].phase \notin {"activating", "probing"})
    /\ <>(runs[1].phase = "complete")

\* The provider never returned symbols: after ten probes the wait returned
\* with its warning, and the run went on and indexed the files.
C39_Witness ==
    LET run == runs[1]
    IN  /\ run.probes = maxRetries
        /\ ~run.symbolsFound
        /\ run.warned
        /\ run.phase = "complete"
        /\ run.indexed # {}
        /\ \A k \in DOMAIN run.files : run.attempts[k] = 1


(***************************************************************************)
(* The indexing flag (C40).                                                *)
(***************************************************************************)
\* C40: isIndexingInProgress() returns true in every state in which a run of
\* performInitialIndexing is in flight and false when none is, however the
\* calls of initializeWorkspaceIndex, reindexWorkspace and
\* forceReindexWorkspace interleave.
C40_FlagAccurate == isIndexingInProgress <=> (InFlight # {})

====
